---- MODULE Spec2Model ----
(***************************************************************************)
(* Workflow execution engine of backend/app/services/workflow.             *)
(*                                                                         *)
(* The datastore (workflows, workflow_executions, workflow_step_executions)*)
(* is shared by tasks that each own an AsyncSession (db/session.py get_db: *)
(* one session per request).  A task is modelled with one action per       *)
(* stretch of code between two awaits; the database write that ends the    *)
(* stretch is part of the action.  An ORM UPDATE carries only the          *)
(* attributes the task assigned since its last commit.                     *)
(***************************************************************************)
EXTENDS Integers, Sequences, FiniteSets, TLC

\* ---------------------------------------------------------------- bounds
MaxSteps == 2      \* longest step list of a stored workflow
MaxCancels == 2    \* cancel_execution calls (tasks)
MaxCalls == 2      \* WorkflowService calls (tasks)
MaxRegistrations == 3   \* action_registry.register calls

\* ------------------------------------------------------- SQL NULL / None
NoneInt == -1
NoneStr == "None"

\* ------------------------------------------------ Python values (JSON)
\* One record shape for every value so that TLC can compare any two.
\* t = "dict" is an action's result dict, identified by n (0 is {}).
\* t = "map" is a dict and t = "list" a list whose content is items: a
\* sequence of Item(key, value), the key of a list item being empty.
\* t = "obj" is a Python object that is no JSON value, s its str().
NoneV == [t |-> "none", s |-> <<>>, n |-> 0, items |-> <<>>]
StrV(s) == [t |-> "str", s |-> s, n |-> 0, items |-> <<>>]
BoolV(b) == [t |-> "bool", s |-> <<>>, n |-> IF b THEN 1 ELSE 0, items |-> <<>>]
IntV(i) == [t |-> "int", s |-> <<>>, n |-> i, items |-> <<>>]
DictV(i) == [t |-> "dict", s |-> <<>>, n |-> i, items |-> <<>>]
Item(k, v) == [k |-> k, v |-> v]
MapV(items) == [t |-> "map", s |-> <<>>, n |-> 0, items |-> items]
ListV(items) == [t |-> "list", s |-> <<>>, n |-> 0, items |-> items]
ObjV(s) == [t |-> "obj", s |-> s, n |-> 0, items |-> <<>>]

EmptyDict == [k \in {} |-> NoneV]

\* A nullable JSON column holding a mapping.
NullJson == [null |-> TRUE, d |-> EmptyDict]
Json(d) == [null |-> FALSE, d |-> d]

DictGet(d, k) == IF k \in DOMAIN d THEN d[k] ELSE NoneV

DictSet(d, k, v) == [x \in (DOMAIN d) \cup {k} |-> IF x = k THEN v ELSE d[x]]

DictUpdate(d, e) ==
    [x \in (DOMAIN d) \cup (DOMAIN e) |-> IF x \in DOMAIN e THEN e[x] ELSE d[x]]

Digit(n) == <<"0", "1", "2", "3", "4", "5", "6", "7", "8", "9">>[n + 1]

RECURSIVE IntStr(_)
IntStr(n) ==
    IF n < 0 THEN <<"-">> \o IntStr(0 - n)
    ELSE IF n < 10 THEN <<Digit(n)>>
    ELSE IntStr(n \div 10) \o <<Digit(n % 10)>>

\* ", ".join(parts)
RECURSIVE JoinComma(_)
JoinComma(parts) ==
    IF parts = <<>> THEN <<>>
    ELSE IF Len(parts) = 1 THEN parts[1]
    ELSE parts[1] \o <<",", " ">> \o JoinComma(Tail(parts))

\* str(v); repr(v) when quoted (a string inside a dict or a list)
RECURSIVE PyText(_, _)
PyText(v, quoted) ==
    CASE v.t = "none" -> <<"N", "o", "n", "e">>
      [] v.t = "bool" -> IF v.n = 1 THEN <<"T", "r", "u", "e">>
                         ELSE <<"F", "a", "l", "s", "e">>
      [] v.t = "int" -> IntStr(v.n)
      [] v.t = "str" -> IF quoted THEN <<"'">> \o v.s \o <<"'">> ELSE v.s
      [] v.t = "obj" -> v.s
      [] v.t = "map" ->
            <<"{">> \o JoinComma([i \in DOMAIN v.items |->
                         <<"'">> \o v.items[i].k \o <<"'", ":", " ">>
                             \o PyText(v.items[i].v, TRUE)]) \o <<"}">>
      [] v.t = "list" ->
            <<"[">> \o JoinComma([i \in DOMAIN v.items |->
                         PyText(v.items[i].v, TRUE)]) \o <<"]">>
      [] OTHER -> IF v.n = 0 THEN <<"{", "}">> ELSE <<"{", "r", IntStr(v.n)[1], "}">>

\* str(v)
PyStr(v) ==
    PyText(v, FALSE)

\* Every value but None counts as true.
TruthyUnlessNone(v) == v.t # "none"

\* bool(v)
Truthy(v) ==
    CASE v.t = "none" -> FALSE
      [] v.t = "bool" -> v.n = 1
      [] v.t = "int" -> v.n # 0
      [] v.t = "str" -> v.s # <<>>
      [] v.t \in {"map", "list"} -> v.items # <<>>
      [] v.t = "obj" -> TRUE
      [] OTHER -> v.n # 0

\* ------------------------------------------------------ Python str ops
\* sub in s
Contains(s, sub) ==
    \E i \in 1..(Len(s) - Len(sub) + 1) : SubSeq(s, i, i + Len(sub) - 1) = sub

FindFirst(s, sub) ==
    CHOOSE i \in 1..(Len(s) - Len(sub) + 1) :
        /\ SubSeq(s, i, i + Len(sub) - 1) = sub
        /\ \A j \in 1..(i - 1) : SubSeq(s, j, j + Len(sub) - 1) # sub

\* s.split(sub, 1) when sub in s
Split1(s, sub) ==
    LET i == FindFirst(s, sub)
    IN  <<SubSeq(s, 1, i - 1), SubSeq(s, i + Len(sub), Len(s))>>

RECURSIVE LStrip(_, _)
LStrip(s, chars) ==
    IF s # <<>> /\ Head(s) \in chars THEN LStrip(Tail(s), chars) ELSE s

RECURSIVE RStrip(_, _)
RStrip(s, chars) ==
    IF s # <<>> /\ s[Len(s)] \in chars
    THEN RStrip(SubSeq(s, 1, Len(s) - 1), chars) ELSE s

Whitespace == {" "}
Quotes == {"\"", "'"}

\* A strip of the left end only.
StripCharsLeft(s, chars) == LStrip(s, chars)

\* s.strip() and s.strip(chars)
StripChars(s, chars) ==
    RStrip(LStrip(s, chars), chars)
Strip(s) == StripChars(s, Whitespace)

\* s.replace(sub, "")
RECURSIVE RemoveAll(_, _)
RemoveAll(s, sub) ==
    IF Contains(s, sub)
    THEN LET p == Split1(s, sub) IN p[1] \o RemoveAll(p[2], sub)
    ELSE s

\* ---------------------------------------------------- variable resolver
\* s.split(sep)
RECURSIVE SplitAll(_, _)
SplitAll(s, sep) ==
    IF Contains(s, sep)
    THEN LET p == Split1(s, sep) IN <<p[1]>> \o SplitAll(p[2], sep)
    ELSE <<s>>

\* The position of the first "}" of s at or after i, 0 if there is none.
FirstClose(s, i) ==
    IF \E j \in i..Len(s) : s[j] = "}"
    THEN CHOOSE j \in i..Len(s) :
             s[j] = "}" /\ \A k \in i..(j - 1) : s[k] # "}"
    ELSE 0

\* re \{\{([^}]+)\}\} matches at position i of s: "{{", one or more
\* characters other than "}", "}}"
TokenAt(s, i) ==
    /\ i + 1 <= Len(s)
    /\ s[i] = "{"
    /\ s[i + 1] = "{"
    /\ LET j == FirstClose(s, i + 2)
       IN  /\ j > i + 2
           /\ j + 1 <= Len(s)
           /\ s[j + 1] = "}"

\* The content of an action's result dict.
response == <<"r", "e", "s", "p", "o", "n", "s", "e">>

\* Dict 1 is what LLMQueryAction.execute returns, dict 2 what
\* DocumentSearchAction.execute returns (no results found).
DictItems(n) ==
    IF n = 0 THEN <<>>
    ELSE IF n = 2
    THEN <<Item(<<"r", "e", "s", "u", "l", "t", "s">>, ListV(<<>>)),
           Item(<<"c", "o", "u", "n", "t">>, IntV(0))>>
    ELSE <<Item(response, StrV(<<"r">>))>>

\* result.get(part) for a dict
MapGet(v, part) ==
    LET items == IF v.t = "dict" THEN DictItems(v.n) ELSE v.items
        at == {i \in DOMAIN items : items[i].k = part}
    IN  IF at = {} THEN NoneV ELSE items[CHOOSE i \in at : TRUE].v

\* type(v).__name__
TypeName(v) ==
    CASE v.t = "none" -> <<"N", "o", "n", "e", "T", "y", "p", "e">>
      [] v.t = "bool" -> <<"b", "o", "o", "l">>
      [] v.t = "int" -> <<"i", "n", "t">>
      [] v.t = "str" -> <<"s", "t", "r">>
      [] v.t = "list" -> <<"l", "i", "s", "t">>
      [] v.t = "obj" -> <<"t", "y", "p", "e">>
      [] OTHER -> <<"d", "i", "c", "t">>

\* hasattr(v, part) / getattr(v, part).  Of the attributes of a Python
\* object the model has __class__, which every object has; str(cls) is
\* "<class 'name'>".
class_attr == <<"_", "_", "c", "l", "a", "s", "s", "_", "_">>

hasattr(v, part) == part = class_attr

getattr(v, part) ==
    ObjV(<<"<", "c", "l", "a", "s", "s", " ", "'">> \o TypeName(v) \o <<"'", ">">>)

\* actions.py 76-82: the loop over the parts of the dotted path, from the
\* value `result`; <<v>> when it ends at v, <<>> when it returns the token
RECURSIVE Walk(_, _)
Walk(result, parts) ==
    IF parts = <<>> THEN <<result>>
    ELSE IF result.t \in {"map", "dict"}
    THEN Walk(MapGet(result, Head(parts)), Tail(parts))
    ELSE IF hasattr(result, Head(parts))
    THEN Walk(getattr(result, Head(parts)), Tail(parts))
    ELSE <<>>

\* actions.py 70-87: replacer(match); token is match.group(0)
replacer(token, group, context) ==
    LET var_name == Strip(group)
        parts == SplitAll(var_name, <<".">>)
        reached == Walk(DictGet(context, StrV(Head(parts))), Tail(parts))
    IN  IF reached # <<>> /\ reached[1] # NoneV THEN PyStr(reached[1]) ELSE token

\* re.sub(pattern, replacer, s)
RECURSIVE ResolveStr(_, _)
ResolveStr(s, context) ==
    LET starts == {i \in 1..Len(s) : TokenAt(s, i)}
    IN  IF starts = {} THEN s
        ELSE LET i == CHOOSE x \in starts : \A y \in starts : x <= y
                 j == FirstClose(s, i + 2)
             IN  SubSeq(s, 1, i - 1)
                     \o replacer(SubSeq(s, i, j + 1), SubSeq(s, i + 2, j - 1), context)
                     \o ResolveStr(SubSeq(s, j + 2, Len(s)), context)

\* A resolver that hands every scalar back as its string form.
RECURSIVE resolve_variables_as_text(_, _)
resolve_variables_as_text(value, context) ==
    CASE value.t = "str" -> StrV(ResolveStr(value.s, context))
      [] value.t = "map" ->
            MapV([i \in DOMAIN value.items |->
                     Item(value.items[i].k,
                          resolve_variables_as_text(value.items[i].v, context))])
      [] value.t = "list" ->
            ListV([i \in DOMAIN value.items |->
                      Item(<<>>, resolve_variables_as_text(value.items[i].v, context))])
      [] OTHER -> StrV(PyStr(value))

\* BaseAction.resolve_variables
RECURSIVE resolve_variables(_, _)
resolve_variables(value, context) ==
    CASE value.t = "str" -> StrV(ResolveStr(value.s, context))
      [] value.t = "map" ->
            MapV([i \in DOMAIN value.items |->
                     Item(value.items[i].k,
                          resolve_variables(value.items[i].v, context))])
      [] value.t = "list" ->
            ListV([i \in DOMAIN value.items |->
                      Item(<<>>, resolve_variables(value.items[i].v, context))])
      [] OTHER -> value

\* ------------------------------------------------------ action registry
\* action_handlers.py registers five classes; a class of action_handlers.py
\* is named by its action_type.
LLMQueryAction == "llm_query"
DocumentSearchAction == "doc_search"
NotionUpdateAction == "notion_update"
HTTPRequestAction == "http_request"
DataTransformAction == "data_transform"

ActionClasses ==
    {LLMQueryAction, DocumentSearchAction, NotionUpdateAction,
     HTTPRequestAction, DataTransformAction}

\* Two more BaseAction subclasses, both of action type "echo": execute
\* returns the value parameter; validate_parameters is BaseAction's.  The
\* second has no docstring.
EchoAction == "EchoAction"
EchoActionV2 == "EchoActionV2"

EchoClasses == {EchoAction, EchoActionV2}

\* <Class>().action_type
ActionType(class) == IF class \in EchoClasses THEN "echo" ELSE class

\* BaseAction.get_description: the class's docstring, or "<type> action"
get_description(class) ==
    IF class = EchoActionV2 THEN <<ActionType(class), " action">>
    ELSE <<"docstring of ", class>>

\* ActionRegistry.__init__
NoActions == [t \in {} |-> NoneStr]

\* A register that keeps the class already registered under the type.
register_keeps_first(reg, class) ==
    [t \in (DOMAIN reg) \cup {ActionType(class)} |->
        IF t \in DOMAIN reg THEN reg[t] ELSE class]

\* ActionRegistry.register: _actions[instance.action_type] = action_class
register(reg, class) ==
    [t \in (DOMAIN reg) \cup {ActionType(class)} |->
        IF t = ActionType(class) THEN class ELSE reg[t]]

\* action_handlers.py 363-367
Imported ==
    <<LLMQueryAction, DocumentSearchAction, NotionUpdateAction,
      HTTPRequestAction, DataTransformAction>>

\* The registry after action_handlers.py was imported.
action_registry == [a \in ActionClasses |-> a]

\* ActionRegistry.is_registered
is_registered(reg, action_type) == action_type \in DOMAIN reg

\* ActionRegistry.get: an instance of the registered class, or None
get(reg, action_type) ==
    IF action_type \in DOMAIN reg THEN reg[action_type] ELSE NoneStr

\* ActionRegistry.list_actions
list_actions(reg) == [t \in DOMAIN reg |-> get_description(reg[t])]

\* The parameters <Class>.validate_parameters requires to be present.
RequiredParameters(class) ==
    CASE class = LLMQueryAction -> {"prompt"}
      [] class = DocumentSearchAction -> {"query"}
      [] class = NotionUpdateAction -> {"task_id", "properties"}
      [] class = HTTPRequestAction -> {"url", "method"}
      [] class \in EchoClasses -> {}
      [] OTHER -> {"operations"}

\* TRUE iff validate_parameters returns without raising.
validate_parameters(class, parameters) ==
    RequiredParameters(class) \subseteq DOMAIN parameters

\* The parameters <Class>.execute hands to resolve_variables
\* (action_handlers.py 47-51, 105, 157-158, 210-213); DataTransformAction
\* resolves none.  The second echo class resolves its value itself.
ResolvedParameters(class) ==
    CASE class = LLMQueryAction -> {"prompt", "system_prompt"}
      [] class = DocumentSearchAction -> {"query"}
      [] class = NotionUpdateAction -> {"task_id", "properties"}
      [] class = HTTPRequestAction -> {"url", "headers", "body"}
      [] class = EchoActionV2 -> {"value"}
      [] OTHER -> {}

\* What <Class>.execute works with, and hands to its collaborator: of the
\* parameters it was given, some resolved against the context.
Request(class, parameters, context) ==
    [k \in DOMAIN parameters |->
        IF k \in ResolvedParameters(class)
        THEN resolve_variables(parameters[k], context) ELSE parameters[k]]

\* --------------------------------------------------------- step records
\* A step is a dict; a key that may be absent has a has_* flag or the
\* Missing marker.
Missing == "<missing>"

Step(action, parameters, has_ov, ov, condition) ==
    [action |-> action, parameters |-> parameters,
     has_output_variable |-> has_ov, output_variable |-> ov,
     condition |-> condition]

flag == <<"f", "l", "a", "g">>
true == <<"t", "r", "u", "e">>
false == <<"f", "a", "l", "s", "e">>

EqOp == <<" ", "=", "=", " ">>
NeOp == <<" ", "!", "=", " ">>
ExistsOp == <<" ", "e", "x", "i", "s", "t", "s">>

\* An evaluation that fails closed: the step is skipped when the
\* evaluation raises.
_should_execute_step_fail_closed(step, context) ==
    LET condition == step.condition
        c == condition.s
    IN  IF ~Truthy(condition) THEN TRUE
        ELSE IF condition.t # "str" THEN FALSE
        ELSE IF Contains(c, EqOp) THEN
            LET p == Split1(c, EqOp)
                var_name == Strip(p[1])
                expected == StripChars(Strip(p[2]), Quotes)
            IN  PyStr(DictGet(context, StrV(var_name))) = expected
        ELSE IF Contains(c, NeOp) THEN
            LET p == Split1(c, NeOp)
                var_name == Strip(p[1])
                expected == StripChars(Strip(p[2]), Quotes)
            IN  PyStr(DictGet(context, StrV(var_name))) # expected
        ELSE IF Contains(c, ExistsOp) THEN
            LET var_name == StrV(Strip(RemoveAll(c, ExistsOp)))
            IN  var_name \in DOMAIN context /\ context[var_name] # NoneV
        ELSE Truthy(DictGet(context, StrV(Strip(c))))

\* WorkflowExecutor._should_execute_step
_should_execute_step(step, context) ==
    LET condition == step.condition
        c == condition.s
    IN  IF ~Truthy(condition) THEN TRUE
        ELSE IF condition.t # "str" THEN TRUE   \* TypeError/AttributeError caught
        ELSE IF Contains(c, EqOp) THEN
            LET p == Split1(c, EqOp)
                var_name == Strip(p[1])
                expected == StripChars(Strip(p[2]), Quotes)
            IN  PyStr(DictGet(context, StrV(var_name))) = expected
        ELSE IF Contains(c, NeOp) THEN
            LET p == Split1(c, NeOp)
                var_name == Strip(p[1])
                expected == StripChars(Strip(p[2]), Quotes)
            IN  PyStr(DictGet(context, StrV(var_name))) # expected
        ELSE IF Contains(c, ExistsOp) THEN
            LET var_name == StrV(Strip(RemoveAll(c, ExistsOp)))
            IN  var_name \in DOMAIN context /\ context[var_name] # NoneV
        ELSE Truthy(DictGet(context, StrV(Strip(c))))

\* f"step_{step_index}_output"
DefaultOutputVariable(step_index) ==
    <<"s", "t", "e", "p", "_">> \o IntStr(step_index)
        \o <<"_", "o", "u", "t", "p", "u", "t">>

\* step.get("output_variable", f"step_{step_index}_output")
OutputVariable(step, step_index) ==
    IF step.has_output_variable THEN step.output_variable
    ELSE StrV(DefaultOutputVariable(step_index))

\* A step dict that also has a "name" key.
WithName(step, name) ==
    [f \in DOMAIN step \cup {"name"} |-> IF f = "name" THEN name ELSE step[f]]

\* step.get("name")
step_name(step) ==
    IF "name" \in DOMAIN step THEN step.name ELSE NoneV

\* db/models.py 206: step_name = Column(String(255), nullable=True).  The
\* driver of the configured database (asyncpg) binds None or a str to it
\* and refuses any other JSON value with a DataError.
Storable(name) == name.t \in {"none", "str"}

\* str(e) of the refused INSERT, and of the commit on a session whose
\* flush has failed (PendingRollbackError).
DataError == "invalid input for query argument"

\* ------------------------------------------------- stored workflows
\* Steps a stored workflow may consist of.  The executor reads whatever
\* the workflows table holds, so the list also has steps that
\* WorkflowService._validate_workflow_steps would not let through today.
NoParameters == EmptyDict
Prompt == [k \in {"prompt"} |-> StrV(<<"p">>)]
Query == [k \in {"query"} |-> StrV(<<"q">>)]
UrlOnly == [k \in {"url"} |-> StrV(<<"u">>)]

StepPlain == Step(LLMQueryAction, Prompt, FALSE, NoneV, NoneV)
StepNamed == Step(DocumentSearchAction, Query, TRUE, StrV(flag), NoneV)
StepIfEq == Step(LLMQueryAction, Prompt, TRUE, NoneV, StrV(flag \o EqOp \o true))
StepUnknown == Step("shell_exec", NoParameters, FALSE, NoneV, NoneV)
StepInvalid == Step(HTTPRequestAction, UrlOnly, FALSE, NoneV, NoneV)
StepNoAction == Step(Missing, NoParameters, FALSE, NoneV, NoneV)

StepDefs ==
    {StepPlain, StepNamed, StepIfEq, StepUnknown, StepInvalid, StepNoAction}

StepLists == UNION {[1..n -> StepDefs] : n \in 1..MaxSteps}

\* workflow.variables and the caller's input_data (None or a mapping)
VariableChoices == {NullJson, Json([k \in {StrV(flag)} |-> StrV(false)])}
InputChoices == {NullJson, Json([k \in {StrV(flag)} |-> StrV(true)])}

\* A row of the workflows table (db/models.py Workflow).  template_id 0
\* is NULL.
Workflow(steps, variables, enabled) ==
    [name |-> "workflow", steps |-> steps, variables |-> variables,
     enabled |-> enabled, version |-> 1, template_id |-> 0]

NoWorkflow == Workflow(<<>>, NullJson, FALSE)

\* Results an action's execute may return (action_handlers.py 65-68,
\* 118-121: a dict of its own for a document search), and str(e) when it
\* raises.
Results(class) ==
    IF class = DocumentSearchAction THEN {DictV(2)} ELSE {DictV(1)}

ActionError == "action failed"

\* The results <Class>.execute may return for the parameters it is given:
\* whatever the collaborator of a handler answers; an echo action returns
\* its value parameter (none, a KeyError, without one).
execute(class, parameters, context) ==
    IF class \in EchoClasses
    THEN {Request(class, parameters, context)[k] : k \in {"value"} \cap DOMAIN parameters}
    ELSE Results(class)

\* ------------------------------------------------------------- state
VARIABLES
    workflows,    \* table workflows: sequence of rows, id = position
    executions,   \* table workflow_executions: sequence of rows, id = position
    stepRows,     \* table workflow_step_executions: sequence of rows
    run,          \* the tasks inside execute_workflow
    cancel,       \* the tasks inside cancel_execution
    now,          \* datetime.utcnow()
    templates,    \* table workflow_templates: sequence of rows, id = position
    call,         \* the tasks inside a WorkflowService call
    registry,     \* action_registry._actions: action type -> class
    registrations, \* the classes handed to action_registry.register, in order
    session       \* the identity map of a session that several calls share

vars ==
    <<workflows, executions, stepRows, run, cancel, now, templates, call,
      registry, registrations, session>>

\* The execute_workflow calls (tasks) of Spec: one run, raced by the
\* cancel_execution calls.
Runs == {1}
Cancels == 1..MaxCancels

Terminal == {"completed", "failed", "cancelled"}

\* WorkflowExecution(workflow_id=..., status="pending", input_data=input_data
\* or {}, context={}) with the column defaults of db/models.py
WorkflowExecution(workflow_id, input_data) ==
    [workflow_id |-> workflow_id,
     status |-> "pending",
     current_step |-> 0,
     input_data |-> IF input_data.null THEN Json(EmptyDict) ELSE input_data,
     output_data |-> NullJson,
     context |-> Json(EmptyDict),
     error_message |-> NoneStr,
     error_step |-> NoneInt,
     started_at |-> NoneInt,
     completed_at |-> NoneInt,
     duration_ms |-> NoneInt]

\* WorkflowStepExecution(...) with the column defaults of db/models.py
WorkflowStepExecution(execution_id, step_index, action_type, status, parameters, started_at) ==
    [execution_id |-> execution_id,
     step_index |-> step_index,
     action_type |-> action_type,
     status |-> status,
     parameters |-> parameters,
     output_data |-> NoneV,
     error_message |-> NoneStr,
     retry_count |-> 0,
     started_at |-> started_at,
     completed_at |-> NoneInt,
     duration_ms |-> NoneInt]

\* The locals of one execute_workflow call.  context_attached: the
\* execution object's context attribute is the local dict `context` itself
\* (after line 101 ran once); an assignment of the same object is no change
\* to the ORM, which then leaves the column out of the UPDATE.  parameters:
\* the dict handed to action.execute; request: what execute made of it.
RunIdle ==
    [pc |-> "idle", workflow_id |-> 0, workflow |-> NoWorkflow,
     input_data |-> NullJson, execution_id |-> 0, step_index |-> 0,
     context |-> EmptyDict, context_attached |-> FALSE,
     started_at |-> NoneInt, step_row |-> 0, result |-> NoneV,
     error |-> NoneStr, parameters |-> EmptyDict, request |-> EmptyDict]

\* What a cancel_execution call keeps of the row its select loaded: the
\* attributes it reads, and the cursor.
Loaded(row) ==
    [status |-> row.status, current_step |-> row.current_step,
     started_at |-> row.started_at]

\* The locals of one cancel_execution call.
CancelIdle ==
    [pc |-> "idle", execution_id |-> 0,
     execution |-> Loaded(WorkflowExecution(0, NullJson))]

\* A row of the workflow_templates table (db/models.py WorkflowTemplate).
WorkflowTemplate(steps, default_variables) ==
    [steps |-> steps, default_variables |-> default_variables,
     usage_count |-> 0]

NoTemplate == WorkflowTemplate(<<>>, NullJson)

\* The arguments of update_workflow; a None argument is NoneStr, NullJson
\* or a has_* flag that is FALSE.
UpdateArgs(name, has_steps, steps, variables, has_enabled, enabled) ==
    [name |-> name, has_steps |-> has_steps, steps |-> steps,
     variables |-> variables, has_enabled |-> has_enabled,
     enabled |-> enabled]

NoArgs == UpdateArgs(NoneStr, FALSE, <<>>, NullJson, FALSE, FALSE)

\* The WorkflowService calls (tasks), each with its own session.
Calls == 1..MaxCalls

\* The locals of one WorkflowService call: the arguments, and the row its
\* select loaded.
CallIdle ==
    [op |-> "none", pc |-> "idle", workflow_id |-> 0, template_id |-> 0,
     args |-> NoArgs, workflow |-> NoWorkflow, template |-> NoTemplate]

\* The reading datetime.utcnow() gives after action.execute was awaited.
\* Time is counted in awaited actions: the clock stands still over the
\* engine's own code and advances by one while an action runs.
Clock == {now + 1}

\* (completed_at - started_at).total_seconds() * 1000, when started_at
Duration(started_at, completed_at) ==
    IF started_at # NoneInt THEN completed_at - started_at ELSE NoneInt

\* A session that holds no object.
NoSession == [id \in {} |-> NoWorkflow]

Init ==
    /\ \E steps \in StepLists, variables \in VariableChoices, enabled \in BOOLEAN :
           workflows = <<Workflow(steps, variables, enabled)>>
    /\ executions = <<>>
    /\ stepRows = <<>>
    /\ run = [r \in Runs |-> RunIdle]
    /\ cancel = [c \in Cancels |-> CancelIdle]
    /\ now = 0
    /\ templates = <<>>
    /\ call = [c \in Calls |-> CallIdle]
    /\ registry = action_registry
    /\ registrations = Imported
    /\ session = NoSession

\* ------------------------------------------------ execute_workflow
CurrentStep(r) == run[r].workflow.steps[run[r].step_index + 1]

StepsLeft(r) == run[r].step_index < Len(run[r].workflow.steps)

\* The workflow is loaded without a look at its enabled flag.
LoadWorkflowUnchecked(r, workflow_id, input_data) ==
    /\ run[r].pc = "idle"
    /\ \A q \in 1..(r - 1) : run[q].pc # "idle"
    /\ run' = [run EXCEPT ![r] =
          IF workflow_id \notin DOMAIN workflows
          THEN [@ EXCEPT !.pc = "raised", !.error = "Workflow not found"]
          ELSE [@ EXCEPT !.pc = "loaded", !.workflow_id = workflow_id,
                         !.workflow = workflows[workflow_id],
                         !.input_data = input_data]]
    /\ UNCHANGED <<workflows, executions, stepRows, cancel, now, templates, call, registry, registrations, session>>

\* executor.py 39-49: select the workflow; raise if absent or disabled.
\* The calls are numbered in the order in which they begin.
LoadWorkflow(r, workflow_id, input_data) ==
    /\ run[r].pc = "idle"
    /\ \A q \in 1..(r - 1) : run[q].pc # "idle"
    /\ run' = [run EXCEPT ![r] =
          IF workflow_id \notin DOMAIN workflows
          THEN [@ EXCEPT !.pc = "raised", !.error = "Workflow not found"]
          ELSE IF ~workflows[workflow_id].enabled
          THEN [@ EXCEPT !.pc = "raised", !.error = "Workflow is disabled"]
          ELSE [@ EXCEPT !.pc = "loaded", !.workflow_id = workflow_id,
                         !.workflow = workflows[workflow_id],
                         !.input_data = input_data]]
    /\ UNCHANGED <<workflows, executions, stepRows, cancel, now, templates, call, registry, registrations, session>>

\* executor.py 51-60: insert the execution row in pending, commit, refresh
CreateExecution(r) ==
    /\ run[r].pc = "loaded"
    /\ executions' = Append(executions,
                            WorkflowExecution(run[r].workflow_id, run[r].input_data))
    /\ run' = [run EXCEPT ![r].pc = "created",
                          ![r].execution_id = Len(executions) + 1]
    /\ UNCHANGED <<workflows, stepRows, cancel, now, templates, call, registry, registrations, session>>

\* The input overlaid with the workflow variables (the variables win).
SeedContextVariablesWin(workflow, input_data) ==
    LET base == IF ~input_data.null /\ input_data.d # EmptyDict
                THEN input_data.d ELSE EmptyDict
    IN  IF ~workflow.variables.null /\ workflow.variables.d # EmptyDict
        THEN DictUpdate(base, workflow.variables.d) ELSE base

\* executor.py 64-69: workflow variables overlaid with the input
SeedContext(workflow, input_data) ==
    LET base == IF ~workflow.variables.null /\ workflow.variables.d # EmptyDict
                THEN workflow.variables.d ELSE EmptyDict
    IN  IF ~input_data.null /\ input_data.d # EmptyDict
        THEN DictUpdate(base, input_data.d) ELSE base

\* A running status written without its start timestamp.
ExecutionRunningUnstamped(row, t) ==
    [row EXCEPT !.status = "running"]

\* executor.py 71-74: the UPDATE that starts the run
ExecutionRunning(row, t) ==
    [row EXCEPT !.status = "running", !.started_at = t]

\* executor.py 64-74: seed the context, set running and started_at, commit
MarkRunning(r) ==
    /\ run[r].pc = "created"
    /\ \E t \in {now} :
        /\ now' = t
        /\ executions' = [executions EXCEPT ![run[r].execution_id] =
              ExecutionRunning(@, t)]
        /\ run' = [run EXCEPT ![r].pc = "loop", ![r].step_index = 0,
              ![r].context = SeedContext(run[r].workflow, run[r].input_data),
              ![r].started_at = t]
    /\ UNCHANGED <<workflows, stepRows, cancel, templates, call, registry, registrations, session>>

\* A skipped row that is stamped like an attempted one.
SkippedRowStamped(execution_id, step_index, step) ==
    WorkflowStepExecution(execution_id, step_index,
        IF step.action = Missing THEN "unknown" ELSE step.action,
        "skipped", step.parameters, now)

\* A skipped row recorded without the step's position (index 0).
SkippedRowUnindexed(execution_id, step_index, step) ==
    WorkflowStepExecution(execution_id, 0,
        IF step.action = Missing THEN "unknown" ELSE step.action,
        "skipped", step.parameters, NoneInt)

\* A skipped step recorded as a running row.
SkippedRowRunning(execution_id, step_index, step) ==
    WorkflowStepExecution(execution_id, step_index,
        IF step.action = Missing THEN "unknown" ELSE step.action,
        "running", step.parameters, NoneInt)

\* executor.py 209-216: the row _record_step_skipped inserts
SkippedRow(execution_id, step_index, step) ==
    WorkflowStepExecution(execution_id, step_index,
        IF step.action = Missing THEN "unknown" ELSE step.action,
        "skipped", step.parameters, NoneInt)

\* executor.py 82-85 and 202-218: condition false, record the skipped row
\* (the INSERT goes through)
SkipStep(r) ==
    /\ run[r].pc = "loop"
    /\ StepsLeft(r)
    /\ ~_should_execute_step(CurrentStep(r), run[r].context)
    /\ Storable(step_name(CurrentStep(r)))
    /\ stepRows' = Append(stepRows,
          SkippedRow(run[r].execution_id, run[r].step_index, CurrentStep(r)))
    /\ run' = [run EXCEPT ![r].step_index = @ + 1]
    /\ UNCHANGED <<workflows, executions, cancel, now, templates, call, registry, registrations, session>>

\* A failed run recorded without the failing step's index.
ExecutionFailedNoStep(row, error, step_index, started_at, t) ==
    [row EXCEPT !.status = "failed", !.error_message = error,
                !.completed_at = t,
                !.duration_ms = IF started_at # NoneInt
                                THEN t - started_at ELSE @]

\* executor.py 105-116: the UPDATE that records a failed run
ExecutionFailed(row, error, step_index, started_at, t) ==
    [row EXCEPT !.status = "failed", !.error_message = error,
                !.error_step = step_index, !.completed_at = t,
                !.duration_ms = IF started_at # NoneInt
                                THEN Duration(started_at, t) ELSE @]

\* executor.py 146-153 then 105-117: no action field or unknown action
\* type; _execute_step raises before a step row exists
RejectStep(r) ==
    /\ run[r].pc = "loop"
    /\ StepsLeft(r)
    /\ _should_execute_step(CurrentStep(r), run[r].context)
    /\ \/ CurrentStep(r).action = Missing
       \/ ~is_registered(registry, CurrentStep(r).action)
    /\ \E t \in {now} :
        LET error == IF CurrentStep(r).action = Missing
                     THEN "Step missing 'action' field"
                     ELSE "Unknown action type"
        IN  /\ now' = t
            /\ executions' = [executions EXCEPT ![run[r].execution_id] =
                  ExecutionFailed(@, error, run[r].step_index, run[r].started_at, t)]
            /\ run' = [run EXCEPT ![r].pc = "raised", ![r].error = error]
    /\ UNCHANGED <<workflows, stepRows, cancel, templates, call, registry, registrations, session>>

\* executor.py 82, 146-167: the step row is inserted as running (the
\* INSERT goes through)
BeginStep(r) ==
    /\ run[r].pc = "loop"
    /\ StepsLeft(r)
    /\ _should_execute_step(CurrentStep(r), run[r].context)
    /\ CurrentStep(r).action # Missing
    /\ is_registered(registry, CurrentStep(r).action)
    /\ Storable(step_name(CurrentStep(r)))
    /\ \E t \in {now} :
        /\ now' = t
        /\ stepRows' = Append(stepRows,
              WorkflowStepExecution(run[r].execution_id, run[r].step_index,
                  CurrentStep(r).action, "running", CurrentStep(r).parameters, t))
    /\ run' = [run EXCEPT ![r].pc = "step_started",
                          ![r].step_row = Len(stepRows) + 1]
    /\ UNCHANGED <<workflows, executions, cancel, templates, call, registry, registrations, session>>

\* executor.py 84, 209-218, 133-135: the INSERT of the skipped row is
\* refused and the commit of line 218 raises.  Line 84 is outside the try
\* of line 88: the handler of 105-117 does not run, the outer handler logs
\* and re-raises, and the execution row is left as it is.
SkipStepRefused(r) ==
    /\ run[r].pc = "loop"
    /\ StepsLeft(r)
    /\ ~_should_execute_step(CurrentStep(r), run[r].context)
    /\ ~Storable(step_name(CurrentStep(r)))
    /\ run' = [run EXCEPT ![r].pc = "raised", ![r].error = DataError]
    /\ UNCHANGED <<workflows, executions, stepRows, cancel, now, templates, call, registry, registrations, session>>

\* executor.py 155-166, 105-117, 133-135: the INSERT of the running row is
\* refused and the commit of line 166 raises, before the try of line 169.
\* The handler of 105-116 assigns failed to the execution object, but its
\* commit is on a session whose flush has failed and raises as well:
\* nothing is written, the outer handler logs and re-raises.
BeginStepRefused(r) ==
    /\ run[r].pc = "loop"
    /\ StepsLeft(r)
    /\ _should_execute_step(CurrentStep(r), run[r].context)
    /\ CurrentStep(r).action # Missing
    /\ is_registered(registry, CurrentStep(r).action)
    /\ ~Storable(step_name(CurrentStep(r)))
    /\ run' = [run EXCEPT ![r].pc = "raised", ![r].error = DataError]
    /\ UNCHANGED <<workflows, executions, stepRows, cancel, now, templates, call, registry, registrations, session>>

\* A failed step recorded without its end timestamp and duration.
StepFailedOpen(row, error, t) ==
    [row EXCEPT !.status = "failed", !.error_message = error]

\* executor.py 190-199: the UPDATE that records a failed step
StepFailed(row, error, t) ==
    [row EXCEPT !.status = "failed", !.error_message = error,
                !.completed_at = t,
                !.duration_ms = IF row.started_at # NoneInt
                                THEN Duration(row.started_at, t) ELSE @]

\* A completed step recorded without the action's result.
StepCompletedNoOutput(row, result, t) ==
    [row EXCEPT !.status = "completed", !.completed_at = t]

\* executor.py 177-186: the UPDATE that records a completed step
StepCompleted(row, result, t) ==
    [row EXCEPT !.status = "completed", !.output_data = result,
                !.completed_at = t,
                !.duration_ms = IF row.started_at # NoneInt
                                THEN Duration(row.started_at, t) ELSE @]

\* executor.py 171-172, 190-200: validate_parameters raises
ValidateRejects(r) ==
    /\ run[r].pc = "step_started"
    /\ ~validate_parameters(registry[CurrentStep(r).action],
                            CurrentStep(r).parameters)
    /\ \E t \in {now} :
        /\ now' = t
        /\ stepRows' = [stepRows EXCEPT ![run[r].step_row] =
              StepFailed(@, "missing required parameter", t)]
    /\ run' = [run EXCEPT ![r].pc = "step_failed",
                          ![r].error = "missing required parameter"]
    /\ UNCHANGED <<workflows, executions, cancel, templates, call, registry, registrations, session>>

\* executor.py 171-175: validation passes, action.execute is awaited
StartAction(r) ==
    /\ run[r].pc = "step_started"
    /\ validate_parameters(registry[CurrentStep(r).action],
                           CurrentStep(r).parameters)
    /\ run' = [run EXCEPT ![r].pc = "executing",
          ![r].parameters = CurrentStep(r).parameters,
          ![r].request = Request(registry[CurrentStep(r).action],
                                 CurrentStep(r).parameters, run[r].context)]
    /\ UNCHANGED <<workflows, executions, stepRows, cancel, now, templates, call, registry, registrations, session>>

\* The results the awaited execute of task r may return.
PossibleResults(r) ==
    IF run[r].pc = "executing"
    THEN execute(registry[CurrentStep(r).action], run[r].parameters, run[r].context)
    ELSE {}

\* executor.py 175-188: execute returns, the row becomes completed
ActionReturns(r, result) ==
    /\ run[r].pc = "executing"
    /\ result \in execute(registry[CurrentStep(r).action], run[r].parameters,
                          run[r].context)
    /\ \E t \in Clock :
        /\ now' = t
        /\ stepRows' = [stepRows EXCEPT ![run[r].step_row] =
              StepCompleted(@, result, t)]
    /\ run' = [run EXCEPT ![r].pc = "step_done", ![r].result = result]
    /\ UNCHANGED <<workflows, executions, cancel, templates, call, registry, registrations, session>>

\* The error of execute is recorded on the row and swallowed: the loop
\* goes on with the next step.
ActionRaisesSwallowed(r) ==
    /\ run[r].pc = "executing"
    /\ \E t \in Clock :
        /\ now' = t
        /\ stepRows' = [stepRows EXCEPT ![run[r].step_row] =
              StepFailed(@, ActionError, t)]
    /\ run' = [run EXCEPT ![r].pc = "loop", ![r].step_index = @ + 1]
    /\ UNCHANGED <<workflows, executions, cancel, templates, call, registry, registrations, session>>

\* The error of execute is counted on the row and the step is attempted
\* again.
ActionRaisesRetried(r) ==
    /\ run[r].pc = "executing"
    /\ stepRows' = [stepRows EXCEPT ![run[r].step_row].retry_count = 1]
    /\ run' = [run EXCEPT ![r].pc = "step_started"]
    /\ UNCHANGED <<workflows, executions, cancel, now, templates, call, registry, registrations, session>>

\* executor.py 175, 190-200: execute raises, the row becomes failed
ActionRaises(r) ==
    /\ run[r].pc = "executing"
    /\ \E t \in Clock :
        /\ now' = t
        /\ stepRows' = [stepRows EXCEPT ![run[r].step_row] =
              StepFailed(@, ActionError, t)]
    /\ run' = [run EXCEPT ![r].pc = "step_failed", ![r].error = ActionError]
    /\ UNCHANGED <<workflows, executions, cancel, templates, call, registry, registrations, session>>

\* executor.py 100-103: the UPDATE after a successful step.  The context
\* column is written only when the assigned dict differs from the value
\* the attribute held ({} from the refresh of line 60, or `context` itself).
ContextPersisted(row, context, attached, step_index) ==
    [row EXCEPT !.context = IF ~attached /\ context # EmptyDict
                            THEN Json(context) ELSE @,
                !.current_step = step_index + 1]

\* executor.py 96-103: bind the result, persist context and current_step
BindResult(r) ==
    /\ run[r].pc = "step_done"
    /\ LET context == DictSet(run[r].context,
                              OutputVariable(CurrentStep(r), run[r].step_index),
                              run[r].result)
       IN  /\ executions' = [executions EXCEPT ![run[r].execution_id] =
                 ContextPersisted(@, context, run[r].context_attached,
                                  run[r].step_index)]
           /\ run' = [run EXCEPT ![r].pc = "loop", ![r].context = context,
                                 ![r].context_attached = TRUE,
                                 ![r].step_index = @ + 1]
    /\ UNCHANGED <<workflows, stepRows, cancel, now, templates, call, registry, registrations, session>>

\* executor.py 105-117: the step raised; record it on the execution, re-raise
FailExecution(r) ==
    /\ run[r].pc = "step_failed"
    /\ \E t \in {now} :
        /\ now' = t
        /\ executions' = [executions EXCEPT ![run[r].execution_id] =
              ExecutionFailed(@, run[r].error, run[r].step_index,
                              run[r].started_at, t)]
    /\ run' = [run EXCEPT ![r].pc = "raised"]
    /\ UNCHANGED <<workflows, stepRows, cancel, templates, call, registry, registrations, session>>

\* A completed run recorded without its output.
ExecutionCompletedNoOutput(row, context, started_at, t) ==
    [row EXCEPT !.status = "completed", !.completed_at = t,
                !.duration_ms = IF started_at # NoneInt
                                THEN t - started_at ELSE @]

\* executor.py 119-128: the UPDATE that records a completed run
ExecutionCompleted(row, context, started_at, t) ==
    [row EXCEPT !.status = "completed", !.output_data = Json(context),
                !.completed_at = t,
                !.duration_ms = IF started_at # NoneInt
                                THEN Duration(started_at, t) ELSE @]

\* The completion written to the newest execution row instead of the
\* task's own.
CompleteExecutionNewest(r) ==
    /\ run[r].pc = "loop"
    /\ ~StepsLeft(r)
    /\ \E t \in {now} :
        /\ now' = t
        /\ executions' = [executions EXCEPT ![Len(executions)] =
              ExecutionCompleted(@, run[r].context, run[r].started_at, t)]
    /\ run' = [run EXCEPT ![r].pc = "returned"]
    /\ UNCHANGED <<workflows, stepRows, cancel, templates, call, registry, registrations, session>>

\* executor.py 78, 119-131: the loop is exhausted
CompleteExecution(r) ==
    /\ run[r].pc = "loop"
    /\ ~StepsLeft(r)
    /\ \E t \in {now} :
        /\ now' = t
        /\ executions' = [executions EXCEPT ![run[r].execution_id] =
              ExecutionCompleted(@, run[r].context, run[r].started_at, t)]
    /\ run' = [run EXCEPT ![r].pc = "returned"]
    /\ UNCHANGED <<workflows, stepRows, cancel, templates, call, registry, registrations, session>>

\* ------------------------------------------------ cancel_execution
\* A status check that lets a completed execution through.
CancellableOrCompleted == {"pending", "running", "completed"}

\* executor.py 276: the statuses cancel_execution accepts
Cancellable == {"pending", "running"}

\* executor.py 268-277: select the execution; raise if absent or if its
\* status is not pending or running.  The calls are numbered in the order
\* in which they select.
CancelSelect(c, execution_id) ==
    /\ cancel[c].pc = "idle"
    /\ \A d \in 1..(c - 1) : cancel[d].pc # "idle"
    /\ cancel' = [cancel EXCEPT ![c] =
          IF execution_id \notin DOMAIN executions
          THEN [@ EXCEPT !.pc = "not_found", !.execution_id = execution_id]
          ELSE IF executions[execution_id].status \notin Cancellable
          THEN [@ EXCEPT !.pc = "rejected", !.execution_id = execution_id]
          ELSE [@ EXCEPT !.pc = "selected", !.execution_id = execution_id,
                         !.execution = Loaded(executions[execution_id])]]
    /\ UNCHANGED <<workflows, executions, stepRows, run, now, templates, call, registry, registrations, session>>

\* The cancellation written as a whole-row save of the loaded object, the
\* cursor included.
ExecutionCancelledStale(row, loaded, t) ==
    [row EXCEPT !.status = "cancelled", !.completed_at = t,
                !.current_step = loaded.current_step,
                !.duration_ms = IF loaded.started_at # NoneInt
                                THEN t - loaded.started_at ELSE @]

\* The cancellation with a duration that is computed also when the
\* execution never started (from a start of 0).
ExecutionCancelledTimed(row, loaded, t) ==
    [row EXCEPT !.status = "cancelled", !.completed_at = t,
                !.duration_ms = IF loaded.started_at # NoneInt
                                THEN t - loaded.started_at ELSE t]

\* executor.py 279-286: the UPDATE that records the cancellation; it
\* carries the assigned attributes only, and the duration is computed from
\* the started_at that was loaded
ExecutionCancelled(row, loaded, t) ==
    [row EXCEPT !.status = "cancelled", !.completed_at = t,
                !.duration_ms = IF loaded.started_at # NoneInt
                                THEN Duration(loaded.started_at, t) ELSE @]

\* executor.py 279-288: set cancelled and completed_at, commit; the call
\* returns and its loaded object is gone
CancelCommit(c) ==
    /\ cancel[c].pc = "selected"
    /\ \E t \in {now} :
        /\ now' = t
        /\ executions' = [executions EXCEPT ![cancel[c].execution_id] =
              ExecutionCancelled(@, cancel[c].execution, t)]
    /\ cancel' = [cancel EXCEPT ![c].pc = "cancelled",
                                ![c].execution = CancelIdle.execution]
    /\ UNCHANGED <<workflows, stepRows, run, templates, call, registry, registrations, session>>

\* ------------------------------------------------ WorkflowService
\* WorkflowService._validate_workflow_steps: TRUE iff it returns without
\* raising
_validate_workflow_steps(steps) ==
    /\ steps # <<>>
    /\ \A i \in DOMAIN steps :
          /\ steps[i].action # Missing
          /\ is_registered(registry, steps[i].action)
          /\ validate_parameters(registry[steps[i].action],
                                 steps[i].parameters)

\* Step lists a caller may hand to the service: two that pass validation,
\* and an empty one, an unknown action type, a missing required parameter
\* and a missing action field.
ServiceStepLists ==
    {<<StepPlain>>, <<StepNamed, StepIfEq>>, <<>>, <<StepUnknown>>,
     <<StepPlain, StepInvalid>>, <<StepNoAction>>}

Renamed == "renamed"
NewVariables == Json([k \in {StrV(flag)} |-> StrV(true)])

\* Argument lists of update_workflow.
UpdateChoices ==
    {UpdateArgs(Renamed, FALSE, <<>>, NullJson, FALSE, FALSE),
     UpdateArgs(NoneStr, FALSE, <<>>, NullJson, TRUE, FALSE),
     UpdateArgs(NoneStr, FALSE, <<>>, NullJson, TRUE, TRUE),
     UpdateArgs(NoneStr, FALSE, <<>>, NewVariables, FALSE, FALSE),
     UpdateArgs(Renamed, TRUE, <<StepUnknown>>, NullJson, FALSE, FALSE)}
    \cup {UpdateArgs(NoneStr, TRUE, steps, NullJson, FALSE, FALSE) :
             steps \in ServiceStepLists}

\* workflow_service.py 47-56: Workflow(name=..., steps=..., enabled=True,
\* version=1)
NewWorkflow(name, steps, variables, template_id) ==
    [Workflow(steps, variables, TRUE) EXCEPT !.name = name,
                                              !.template_id = template_id]

\* Steps are stored without validation.
CreateWorkflowUnvalidated(c, name, steps, variables) ==
    /\ call[c].pc = "idle"
    /\ \A d \in 1..(c - 1) : call[d].pc # "idle"
    /\ workflows' = Append(workflows, NewWorkflow(name, steps, variables, 0))
    /\ call' = [call EXCEPT ![c].op = "create_workflow", ![c].pc = "done",
                            ![c].workflow_id = Len(workflows) + 1]
    /\ UNCHANGED <<executions, stepRows, run, cancel, now, templates, registry, registrations, session>>

\* workflow_service.py 33-63: create_workflow; validate, insert, commit.
\* The calls are numbered in the order in which they begin.
CreateWorkflow(c, name, steps, variables) ==
    /\ call[c].pc = "idle"
    /\ \A d \in 1..(c - 1) : call[d].pc # "idle"
    /\ IF _validate_workflow_steps(steps)
       THEN /\ workflows' = Append(workflows,
                                   NewWorkflow(name, steps, variables, 0))
            /\ call' = [call EXCEPT ![c].op = "create_workflow",
                                    ![c].pc = "done",
                                    ![c].workflow_id = Len(workflows) + 1]
       ELSE /\ workflows' = workflows
            /\ call' = [call EXCEPT ![c].op = "create_workflow",
                                    ![c].pc = "rejected"]
    /\ UNCHANGED <<executions, stepRows, run, cancel, now, templates, registry, registrations, session>>

\* workflow_service.py 99-101 (get_workflow 65-70): select the workflow
UpdateSelect(c, workflow_id, args) ==
    /\ call[c].pc = "idle"
    /\ \A d \in 1..(c - 1) : call[d].pc # "idle"
    /\ call' = [call EXCEPT ![c] =
          IF workflow_id \notin DOMAIN workflows
          THEN [@ EXCEPT !.op = "update_workflow", !.pc = "not_found",
                         !.workflow_id = workflow_id]
          ELSE [@ EXCEPT !.op = "update_workflow", !.pc = "selected",
                         !.workflow_id = workflow_id, !.args = args,
                         !.workflow = workflows[workflow_id]]]
    /\ UNCHANGED <<workflows, executions, stepRows, run, cancel, now, templates, registry, registrations, session>>

\* workflow_service.py 103-116: the UPDATE of update_workflow.  It carries
\* the attributes whose assigned value differs from the loaded one; the
\* version is computed from the loaded version.
WorkflowUpdated(row, loaded, args) ==
    [row EXCEPT
        !.name = IF args.name # NoneStr /\ args.name # loaded.name
                 THEN args.name ELSE @,
        !.steps = IF args.has_steps /\ args.steps # loaded.steps
                  THEN args.steps ELSE @,
        !.version = IF args.has_steps THEN loaded.version + 1 ELSE @,
        !.variables = IF ~args.variables.null /\ args.variables # loaded.variables
                      THEN args.variables ELSE @,
        !.enabled = IF args.has_enabled /\ args.enabled # loaded.enabled
                    THEN args.enabled ELSE @]

\* workflow_service.py 103-117: assign the given attributes, validate the
\* steps (raise: nothing is committed and the session is rolled back),
\* commit, refresh
UpdateCommit(c) ==
    /\ call[c].op = "update_workflow"
    /\ call[c].pc = "selected"
    /\ IF call[c].args.has_steps /\ ~_validate_workflow_steps(call[c].args.steps)
       THEN /\ workflows' = workflows
            /\ call' = [call EXCEPT ![c].pc = "rejected",
                                    ![c].workflow = NoWorkflow]
       ELSE /\ workflows' = [workflows EXCEPT ![call[c].workflow_id] =
                  WorkflowUpdated(@, call[c].workflow, call[c].args)]
            /\ call' = [call EXCEPT ![c].pc = "done",
                                    ![c].workflow = NoWorkflow]
    /\ UNCHANGED <<executions, stepRows, run, cancel, now, templates, registry, registrations, session>>

\* workflow_service.py 252-254 (get_template 216-221): select the template
TemplateSelect(c, template_id, variables) ==
    /\ call[c].pc = "idle"
    /\ \A d \in 1..(c - 1) : call[d].pc # "idle"
    /\ call' = [call EXCEPT ![c] =
          IF template_id \notin DOMAIN templates
          THEN [@ EXCEPT !.op = "create_workflow_from_template",
                         !.pc = "not_found", !.template_id = template_id]
          ELSE [@ EXCEPT !.op = "create_workflow_from_template",
                         !.pc = "template_loaded",
                         !.template_id = template_id,
                         !.args = [NoArgs EXCEPT !.variables = variables],
                         !.template = templates[template_id]]]
    /\ UNCHANGED <<workflows, executions, stepRows, run, cancel, now, templates, registry, registrations, session>>

\* workflow_service.py 256-261: default variables overlaid with the given
TemplateVariables(template, variables) ==
    LET base == IF ~template.default_variables.null
                   /\ template.default_variables.d # EmptyDict
                THEN template.default_variables.d ELSE EmptyDict
    IN  IF ~variables.null /\ variables.d # EmptyDict
        THEN DictUpdate(base, variables.d) ELSE base

FromTemplate == "from template"

\* workflow_service.py 256-271: create_workflow with the template's steps;
\* it validates, inserts and commits, or raises
InstantiateWorkflow(c) ==
    /\ call[c].op = "create_workflow_from_template"
    /\ call[c].pc = "template_loaded"
    /\ IF _validate_workflow_steps(call[c].template.steps)
       THEN /\ workflows' = Append(workflows,
                  NewWorkflow(FromTemplate, call[c].template.steps,
                      Json(TemplateVariables(call[c].template,
                                             call[c].args.variables)),
                      call[c].template_id))
            /\ call' = [call EXCEPT ![c].pc = "created",
                                    ![c].workflow_id = Len(workflows) + 1]
       ELSE /\ workflows' = workflows
            /\ call' = [call EXCEPT ![c].pc = "rejected",
                                    ![c].template = NoTemplate]
    /\ UNCHANGED <<executions, stepRows, run, cancel, now, templates, registry, registrations, session>>

\* workflow_service.py 273-275: template.usage_count += 1 on the loaded
\* object; the UPDATE sets the column to the loaded count plus one
TemplateUsed(row, loaded) ==
    [row EXCEPT !.usage_count = loaded.usage_count + 1]

\* workflow_service.py 273-278: count the use, commit, return the workflow
CountUsage(c) ==
    /\ call[c].op = "create_workflow_from_template"
    /\ call[c].pc = "created"
    /\ templates' = [templates EXCEPT ![call[c].template_id] =
          TemplateUsed(@, call[c].template)]
    /\ call' = [call EXCEPT ![c].pc = "done", ![c].template = NoTemplate]
    /\ UNCHANGED <<workflows, executions, stepRows, run, cancel, now, registry, registrations, session>>

\* ------------------------------------------------------ specification
Next ==
    \/ \E r \in DOMAIN run, w \in 1..(Len(workflows) + 1), i \in InputChoices :
           LoadWorkflow(r, w, i)
    \/ \E r \in DOMAIN run : CreateExecution(r)
    \/ \E r \in DOMAIN run : MarkRunning(r)
    \/ \E r \in DOMAIN run : SkipStep(r)
    \/ \E r \in DOMAIN run : RejectStep(r)
    \/ \E r \in DOMAIN run : BeginStep(r)
    \/ \E r \in DOMAIN run : ValidateRejects(r)
    \/ \E r \in DOMAIN run : StartAction(r)
    \/ \E r \in DOMAIN run : \E result \in PossibleResults(r) : ActionReturns(r, result)
    \/ \E r \in DOMAIN run : ActionRaises(r)
    \/ \E r \in DOMAIN run : BindResult(r)
    \/ \E r \in DOMAIN run : FailExecution(r)
    \/ \E r \in DOMAIN run : CompleteExecution(r)
    \/ \E c \in Cancels, e \in DOMAIN run : CancelSelect(c, e)
    \/ \E c \in Cancels : CancelCommit(c)

Spec == Init /\ [][Next]_vars

\* The service's calls on a database that holds one template (valid, or
\* with a step whose action type is no longer registered) and no workflow
\* or one valid workflow; execute_workflow calls get as far as the pending
\* row.
TemplateStepLists == {<<StepPlain>>, <<StepUnknown>>}

InitService ==
    /\ workflows \in {<<>>, <<NewWorkflow("workflow", <<StepPlain>>, NullJson, 0)>>}
    /\ templates \in {<<WorkflowTemplate(steps, NullJson)>> : steps \in TemplateStepLists}
    /\ executions = <<>>
    /\ stepRows = <<>>
    /\ run = [r \in Runs |-> RunIdle]
    /\ cancel = [c \in Cancels |-> CancelIdle]
    /\ now = 0
    /\ call = [c \in Calls |-> CallIdle]
    /\ registry = action_registry
    /\ registrations = Imported
    /\ session = NoSession

NextService ==
    \/ \E c \in Calls, steps \in ServiceStepLists, variables \in VariableChoices :
           CreateWorkflow(c, "workflow", steps, variables)
    \/ \E c \in Calls, w \in 1..(Len(workflows) + 1), args \in UpdateChoices :
           UpdateSelect(c, w, args)
    \/ \E c \in Calls : UpdateCommit(c)
    \/ \E c \in Calls, t \in 1..(Len(templates) + 1), variables \in InputChoices :
           TemplateSelect(c, t, variables)
    \/ \E c \in Calls : InstantiateWorkflow(c)
    \/ \E c \in Calls : CountUsage(c)
    \/ \E r \in DOMAIN run, w \in 1..(Len(workflows) + 1) :
           LoadWorkflow(r, w, NullJson)
    \/ \E r \in DOMAIN run : CreateExecution(r)

SpecService == InitService /\ [][NextService]_vars

\* Runs of three-step workflows, raced by the cancel_execution calls.
LongStepLists ==
    {<<StepPlain, StepNamed, StepIfEq>>, <<StepNamed, StepPlain, StepInvalid>>,
     <<StepIfEq, StepPlain, StepUnknown>>}

InitLong ==
    /\ \E steps \in LongStepLists, variables \in VariableChoices :
           workflows = <<Workflow(steps, variables, TRUE)>>
    /\ executions = <<>>
    /\ stepRows = <<>>
    /\ run = [r \in Runs |-> RunIdle]
    /\ cancel = [c \in Cancels |-> CancelIdle]
    /\ now = 0
    /\ templates = <<>>
    /\ call = [c \in Calls |-> CallIdle]
    /\ registry = action_registry
    /\ registrations = Imported
    /\ session = NoSession

SpecLong == InitLong /\ [][Next]_vars

\* The seeding of the context for every workflow.variables and input_data
\* over two keys.
mode == <<"m", "o", "d", "e">>

SeedMappings ==
    UNION {[keys -> {StrV(true), StrV(false)}] : keys \in SUBSET {StrV(flag), StrV(mode)}}

SeedChoices == {NullJson} \cup {Json(d) : d \in SeedMappings}

InitSeed ==
    /\ \E variables \in SeedChoices :
           workflows = <<Workflow(<<StepPlain>>, variables, TRUE)>>
    /\ executions = <<>>
    /\ stepRows = <<>>
    /\ run = [r \in Runs |-> RunIdle]
    /\ cancel = [c \in Cancels |-> CancelIdle]
    /\ now = 0
    /\ templates = <<>>
    /\ call = [c \in Calls |-> CallIdle]
    /\ registry = action_registry
    /\ registrations = Imported
    /\ session = NoSession

NextSeed ==
    \/ \E r \in DOMAIN run, w \in DOMAIN workflows, i \in SeedChoices :
           LoadWorkflow(r, w, i)
    \/ \E r \in DOMAIN run : CreateExecution(r)
    \/ \E r \in DOMAIN run : MarkRunning(r)

SpecSeed == InitSeed /\ [][NextSeed]_vars


\* The registry from its construction on: register calls with the classes
\* of action_handlers.py and the two echo classes.
RegistrableClasses == ActionClasses \cup EchoClasses

\* actions.py 111-125: register never raises for a concrete class
Register(class) ==
    /\ Len(registrations) < MaxRegistrations
    /\ registry' = register(registry, class)
    /\ registrations' = Append(registrations, class)
    /\ UNCHANGED <<workflows, executions, stepRows, run, cancel, now, templates, call, session>>

InitRegistry ==
    /\ workflows = <<>>
    /\ executions = <<>>
    /\ stepRows = <<>>
    /\ run = [r \in Runs |-> RunIdle]
    /\ cancel = [c \in Cancels |-> CancelIdle]
    /\ now = 0
    /\ templates = <<>>
    /\ call = [c \in Calls |-> CallIdle]
    /\ registry = NoActions
    /\ registrations = <<>>
    /\ session = NoSession

NextRegistry == \E class \in RegistrableClasses : Register(class)

SpecRegistry == InitRegistry /\ [][NextRegistry]_vars


\* ---------------------------------------------- condition evaluation
\* execute_workflow without the cancel_execution calls.
NextRun ==
    \/ \E r \in DOMAIN run, w \in 1..(Len(workflows) + 1), i \in InputChoices :
           LoadWorkflow(r, w, i)
    \/ \E r \in DOMAIN run : CreateExecution(r)
    \/ \E r \in DOMAIN run : MarkRunning(r)
    \/ \E r \in DOMAIN run : SkipStep(r)
    \/ \E r \in DOMAIN run : RejectStep(r)
    \/ \E r \in DOMAIN run : BeginStep(r)
    \/ \E r \in DOMAIN run : ValidateRejects(r)
    \/ \E r \in DOMAIN run : StartAction(r)
    \/ \E r \in DOMAIN run : \E result \in PossibleResults(r) : ActionReturns(r, result)
    \/ \E r \in DOMAIN run : ActionRaises(r)
    \/ \E r \in DOMAIN run : BindResult(r)
    \/ \E r \in DOMAIN run : FailExecution(r)
    \/ \E r \in DOMAIN run : CompleteExecution(r)

\* Condition strings, put together from their parts.
ConditionVars == {flag, mode}

ExpectedTexts ==
    {true, <<"T", "r", "u", "e">>, <<"N", "o", "n", "e">>, <<"0">>}

QuoteMarks == {<<>>, <<"'">>, <<"\"">>}

Paddings == {<<>>, <<" ">>}

\* "<var> == <expected>" or "<var> != <expected>", the expected text in
\* quotes q, with padding around the variable and the expected text
Comparison(var, op, q, expected, pad) ==
    pad \o var \o pad \o op \o pad \o q \o expected \o q \o pad

ComparisonConditions ==
    {Comparison(var, op, q, expected, pad) :
        var \in ConditionVars, op \in {EqOp, NeOp}, q \in QuoteMarks,
        expected \in ExpectedTexts, pad \in Paddings}

\* "<var> exists"
ExistsConditions ==
    {pad \o var \o ExistsOp : var \in ConditionVars, pad \in Paddings}

\* " exists" followed by more text
exists_now == flag \o ExistsOp \o <<" ", "n", "o", "w">>

InnerExistsConditions == {flag \o ExistsOp \o <<" ">>, exists_now}

\* "<var>"
NameConditions ==
    {pad \o var \o pad : var \in ConditionVars, pad \in Paddings}

\* step["condition"]: absent or None, a string, or a JSON value that is
\* no string
Conditions ==
    {NoneV, StrV(<<>>), IntV(1), BoolV(TRUE), DictV(1)}
        \cup {StrV(c) : c \in ComparisonConditions \cup ExistsConditions
                             \cup InnerExistsConditions \cup NameConditions}

\* The context the condition is evaluated against (workflow.variables).
ContextValues ==
    {StrV(true), StrV(false), StrV(<<>>), BoolV(TRUE), BoolV(FALSE),
     IntV(0), IntV(1), NoneV}

ConditionContexts ==
    {NullJson} \cup {Json([k \in {StrV(flag)} |-> v]) : v \in ContextValues}
        \cup {Json([k \in {StrV(flag), StrV(exists_now)} |-> StrV(true)])}

ConditionedSteps ==
    {[step EXCEPT !.condition = condition] :
        step \in {StepPlain, StepUnknown, StepInvalid}, condition \in Conditions}

InitCondition ==
    /\ \E step \in ConditionedSteps, variables \in ConditionContexts :
           workflows = <<Workflow(<<step>>, variables, TRUE)>>
    /\ executions = <<>>
    /\ stepRows = <<>>
    /\ run = [r \in Runs |-> RunIdle]
    /\ cancel = [c \in Cancels |-> CancelIdle]
    /\ now = 0
    /\ templates = <<>>
    /\ call = [c \in Calls |-> CallIdle]
    /\ registry = action_registry
    /\ registrations = Imported
    /\ session = NoSession

SpecCondition == InitCondition /\ [][NextRun]_vars


\* ---------------------------------------------- variable resolution
\* Dotted paths of placeholders, as their parts.
msg == <<"m", "s", "g">>
hi == <<"h", "i">>
data == <<"d", "a", "t", "a">>
missing == <<"m", "i", "s", "s", "i", "n", "g">>
path == <<"p", "a", "t", "h">>

Placeholders ==
    {<<flag>>, <<mode>>, <<missing>>, <<missing, path>>, <<data>>,
     <<data, msg>>, <<data, missing>>, <<flag, msg>>,
     <<missing, class_attr>>, <<flag, class_attr>>}

\* ".".join(parts)
RECURSIVE JoinDots(_)
JoinDots(parts) ==
    IF Len(parts) = 1 THEN parts[1]
    ELSE parts[1] \o <<".">> \o JoinDots(Tail(parts))

\* Text around a placeholder: none, or some on either side.
Affixes == {<<<<>>, <<>>>>, <<<<"a", " ">>, <<"!">>>>}

\* "<before>{{<pad><path><pad>}}<after>"
Template(affix, pad, parts) ==
    affix[1] \o <<"{", "{">> \o pad \o JoinDots(parts) \o pad
        \o <<"}", "}">> \o affix[2]

TokenTemplates ==
    {StrV(Template(affix, pad, parts)) :
        affix \in Affixes, pad \in Paddings, parts \in Placeholders}

\* Values without a {{...}} token: strings (some with braces that make no
\* token), scalars, and a map and a list of such values.
TokenFreeStrings ==
    {<<>>, hi, <<"{", "f", "l", "a", "g", "}">>, <<"{", "{", "}", "}">>, <<"{", "{", "f", "l", "a", "g", "}">>, <<"{", "{", "f", "}", "l", "a", "g", "}", "}">>, <<"}", "}", "f", "l", "a", "g", "{", "{">>}

TokenFreeScalars ==
    {StrV(t) : t \in TokenFreeStrings} \cup {NoneV, IntV(0), IntV(7), BoolV(TRUE)}

TokenFreeValues ==
    TokenFreeScalars
        \cup {MapV(<<Item(msg, v), Item(<<"{", "{", "f", "l", "a", "g", "}", "}">>, ListV(<<Item(<<>>, v)>>))>>) :
                  v \in TokenFreeScalars}
        \cup {ListV(<<Item(<<>>, v), Item(<<>>, MapV(<<Item(flag, v)>>))>>) :
                  v \in TokenFreeScalars}

\* Values with tokens inside a map and a list.
NestedTemplates ==
    {MapV(<<Item(msg, StrV(Template(<<<<>>, <<>>>>, <<>>, <<flag>>))),
            Item(data, ListV(<<Item(<<>>, StrV(Template(<<<<>>, <<>>>>, <<>>, <<data, msg>>))),
                               Item(<<>>, IntV(7))>>))>>)}

\* The contexts: workflow.variables, overlaid with the input.
ResolveContexts ==
    {NullJson,
     Json([k \in {StrV(flag)} |-> IntV(0)]),
     Json([k \in {StrV(flag), StrV(mode), StrV(data)} |->
              IF k = StrV(flag) THEN StrV(false)
              ELSE IF k = StrV(mode) THEN NoneV
              ELSE MapV(<<Item(msg, StrV(hi)), Item(mode, NoneV)>>)])}

\* A document search whose query is the value to resolve.
Search(value) ==
    [StepNamed EXCEPT !.parameters = [k \in {"query"} |-> value]]

InitResolve ==
    /\ \E value \in TokenTemplates \cup TokenFreeValues \cup NestedTemplates,
          variables \in ResolveContexts :
           workflows = <<Workflow(<<Search(value)>>, variables, TRUE)>>
    /\ executions = <<>>
    /\ stepRows = <<>>
    /\ run = [r \in Runs |-> RunIdle]
    /\ cancel = [c \in Cancels |-> CancelIdle]
    /\ now = 0
    /\ templates = <<>>
    /\ call = [c \in Calls |-> CallIdle]
    /\ registry = action_registry
    /\ registrations = Imported
    /\ session = NoSession

\* execute_workflow up to the awaited execute, which has resolved its
\* parameters.
NextResolve ==
    \/ \E r \in DOMAIN run, w \in DOMAIN workflows, i \in InputChoices :
           LoadWorkflow(r, w, i)
    \/ \E r \in DOMAIN run : CreateExecution(r)
    \/ \E r \in DOMAIN run : MarkRunning(r)
    \/ \E r \in DOMAIN run : BeginStep(r)
    \/ \E r \in DOMAIN run : StartAction(r)

SpecResolve == InitResolve /\ [][NextResolve]_vars


\* ------------------------------------------------------ echo scenario
\* The one-step workflow [{action: echo, parameters: {value: ...},
\* output_variable: greeting}], with one of the echo classes registered
\* after the import of action_handlers.py.
greeting == <<"g", "r", "e", "e", "t", "i", "n", "g">>
input == <<"i", "n", "p", "u", "t">>

EchoValues ==
    {StrV(Template(<<<<>>, <<>>>>, <<>>, parts)) : parts \in {<<input, msg>>, <<msg>>}}
        \cup {StrV(hi), IntV(7)}

EchoInputs ==
    {NullJson, Json([k \in {StrV(msg)} |-> StrV(hi)]),
     Json([k \in {StrV(input)} |-> MapV(<<Item(msg, StrV(hi))>>)])}

Echo(value) ==
    Step("echo", [k \in {"value"} |-> value], TRUE, StrV(greeting), NoneV)

InitEcho ==
    /\ \E value \in EchoValues :
           workflows = <<Workflow(<<Echo(value)>>, NullJson, TRUE)>>
    /\ executions = <<>>
    /\ stepRows = <<>>
    /\ run = [r \in Runs |-> RunIdle]
    /\ cancel = [c \in Cancels |-> CancelIdle]
    /\ now = 0
    /\ templates = <<>>
    /\ call = [c \in Calls |-> CallIdle]
    /\ \E class \in EchoClasses :
           /\ registry = register(action_registry, class)
           /\ registrations = Append(Imported, class)
    /\ session = NoSession

NextEcho ==
    \/ \E r \in DOMAIN run, w \in DOMAIN workflows, i \in EchoInputs :
           LoadWorkflow(r, w, i)
    \/ \E r \in DOMAIN run : CreateExecution(r)
    \/ \E r \in DOMAIN run : MarkRunning(r)
    \/ \E r \in DOMAIN run : BeginStep(r)
    \/ \E r \in DOMAIN run : StartAction(r)
    \/ \E r \in DOMAIN run : \E result \in PossibleResults(r) : ActionReturns(r, result)
    \/ \E r \in DOMAIN run : ActionRaises(r)
    \/ \E r \in DOMAIN run : BindResult(r)
    \/ \E r \in DOMAIN run : FailExecution(r)
    \/ \E r \in DOMAIN run : CompleteExecution(r)

SpecEcho == InitEcho /\ [][NextEcho]_vars


\* ------------------------------------------------ concurrent executions
\* Two execute_workflow calls, each with its own session, on a database
\* with two workflows.
TwoRuns == {1, 2}

SecondStepLists == {<<StepPlain, StepInvalid>>, <<StepPlain, StepUnknown>>}

InitTwo ==
    /\ \E steps \in SecondStepLists, variables \in VariableChoices :
           workflows = <<Workflow(<<StepNamed, StepIfEq>>, variables, TRUE),
                         Workflow(steps, NullJson, TRUE)>>
    /\ executions = <<>>
    /\ stepRows = <<>>
    /\ run = [r \in TwoRuns |-> RunIdle]
    /\ cancel = [c \in Cancels |-> CancelIdle]
    /\ now = 0
    /\ templates = <<>>
    /\ call = [c \in Calls |-> CallIdle]
    /\ registry = action_registry
    /\ registrations = Imported
    /\ session = NoSession

SpecTwo == InitTwo /\ [][NextRun]_vars


\* ------------------------------------------- calls that share a session
\* One WorkflowService whose calls, one after the other, use the same
\* session (db/session.py 21-28: expire_on_commit=False, autoflush=False).
\* The session keeps every object it has loaded: its attributes as the
\* code has assigned them (object) and as they were loaded or last
\* flushed (clean).
Identity(row) == [object |-> row, clean |-> row]

\* workflow_service.py 65-70 through the identity map: an object the
\* session already holds is returned as it is, pending changes included
SessionLoad(s, rows, id) ==
    IF id \in DOMAIN s THEN s
    ELSE [x \in DOMAIN s \cup {id} |-> IF x = id THEN Identity(rows[id]) ELSE s[x]]

\* The flush of a commit: one UPDATE per object, with the attributes
\* whose value differs from the clean one.
Flushed(rows, s) ==
    [id \in 1..Len(rows) |->
        IF id \in DOMAIN s
        THEN [f \in DOMAIN rows[id] |->
                 IF s[id].object[f] # s[id].clean[f]
                 THEN s[id].object[f] ELSE rows[id][f]]
        ELSE rows[id]]

\* The session after a commit: nothing is pending, nothing is expired.
Committed(s) == [id \in DOMAIN s |-> Identity(s[id].object)]

\* workflow_service.py 103-106: the name is assigned
NameAssigned(object, args) ==
    [object EXCEPT !.name = IF args.name # NoneStr THEN args.name ELSE @]

\* workflow_service.py 109-114: steps, version, variables and enabled are
\* assigned
RestAssigned(object, args) ==
    [object EXCEPT
        !.steps = IF args.has_steps THEN args.steps ELSE @,
        !.version = IF args.has_steps THEN @ + 1 ELSE @,
        !.variables = IF ~args.variables.null THEN args.variables ELSE @,
        !.enabled = IF args.has_enabled THEN args.enabled ELSE @]

\* workflow_service.py 89-120: update_workflow as a whole on the shared
\* session.  The name is assigned before the steps are validated; when
\* the validation raises, the call ends with the assigned name pending in
\* the session and nothing committed.
SessionUpdate(c, workflow_id, args) ==
    /\ call[c].pc = "idle"
    /\ \A d \in 1..(c - 1) : call[d].pc # "idle"
    /\ IF workflow_id \notin DOMAIN workflows
       THEN /\ call' = [call EXCEPT ![c].op = "update_workflow",
                                    ![c].pc = "not_found",
                                    ![c].workflow_id = workflow_id]
            /\ UNCHANGED <<workflows, session>>
       ELSE LET loaded == SessionLoad(session, workflows, workflow_id)
                named == [loaded EXCEPT ![workflow_id].object =
                             NameAssigned(@, args)]
                assigned == [named EXCEPT ![workflow_id].object =
                                RestAssigned(@, args)]
            IN  IF args.has_steps /\ ~_validate_workflow_steps(args.steps)
                THEN /\ session' = named
                     /\ workflows' = workflows
                     /\ call' = [call EXCEPT ![c].op = "update_workflow",
                               ![c].pc = "rejected", ![c].args = args,
                               ![c].workflow_id = workflow_id]
                ELSE /\ workflows' = Flushed(workflows, assigned)
                     /\ session' = Committed(assigned)
                     /\ call' = [call EXCEPT ![c].op = "update_workflow",
                               ![c].pc = "done", ![c].args = args,
                               ![c].workflow_id = workflow_id]
    /\ UNCHANGED <<executions, stepRows, run, cancel, now, templates, registry, registrations>>

\* workflow_service.py 33-63: create_workflow as a whole on the shared
\* session; its commit flushes whatever is pending in the session
SessionCreate(c, name, steps, variables) ==
    /\ call[c].pc = "idle"
    /\ \A d \in 1..(c - 1) : call[d].pc # "idle"
    /\ IF _validate_workflow_steps(steps)
       THEN LET row == NewWorkflow(name, steps, variables, 0)
                id == Len(workflows) + 1
            IN  /\ workflows' = Append(Flushed(workflows, session), row)
                /\ session' = SessionLoad(Committed(session),
                                          Append(workflows, row), id)
                /\ call' = [call EXCEPT ![c].op = "create_workflow",
                                        ![c].pc = "done",
                                        ![c].workflow_id = id]
       ELSE /\ call' = [call EXCEPT ![c].op = "create_workflow",
                                    ![c].pc = "rejected"]
            /\ UNCHANGED <<workflows, session>>
    /\ UNCHANGED <<executions, stepRows, run, cancel, now, templates, registry, registrations>>

\* db/session.py 46: the owner of the session rolls it back; pending
\* changes are dropped and every object is expired
SessionRollback ==
    /\ session # NoSession
    /\ session' = NoSession
    /\ UNCHANGED <<workflows, executions, stepRows, run, cancel, now, templates, call, registry, registrations>>

Created == "created"

\* The workflows table before the first call.
InitialWorkflows == <<NewWorkflow("workflow", <<StepPlain>>, NullJson, 0)>>

InitSession ==
    /\ workflows = InitialWorkflows
    /\ templates = <<>>
    /\ executions = <<>>
    /\ stepRows = <<>>
    /\ run = [r \in Runs |-> RunIdle]
    /\ cancel = [c \in Cancels |-> CancelIdle]
    /\ now = 0
    /\ call = [c \in Calls |-> CallIdle]
    /\ registry = action_registry
    /\ registrations = Imported
    /\ session = NoSession

NextSession ==
    \/ \E c \in Calls, w \in 1..(Len(workflows) + 1), args \in UpdateChoices :
           SessionUpdate(c, w, args)
    \/ \E c \in Calls, steps \in ServiceStepLists, variables \in VariableChoices :
           SessionCreate(c, Created, steps, variables)
    \/ SessionRollback

SpecSession == InitSession /\ [][NextSession]_vars


\* ------------------------------------------------- one run on its own
\* One execute_workflow call with no cancel_execution call beside it.
SpecRun == Init /\ [][NextRun]_vars


\* ------------------------------------------------- rebound names
\* Runs of workflows whose steps bind one name: a document search and an
\* LLM query that both declare the output variable flag, beside a step
\* with the generated name and a conditioned one.
StepNamedQuery == Step(LLMQueryAction, Prompt, TRUE, StrV(flag), NoneV)

BindingSteps == {StepNamed, StepNamedQuery, StepPlain, StepIfEq}

BindingStepLists == UNION {[1..n -> BindingSteps] : n \in 1..MaxSteps}

InitBind ==
    /\ \E steps \in BindingStepLists, variables \in VariableChoices :
           workflows = <<Workflow(steps, variables, TRUE)>>
    /\ executions = <<>>
    /\ stepRows = <<>>
    /\ run = [r \in Runs |-> RunIdle]
    /\ cancel = [c \in Cancels |-> CancelIdle]
    /\ now = 0
    /\ templates = <<>>
    /\ call = [c \in Calls |-> CallIdle]
    /\ registry = action_registry
    /\ registrations = Imported
    /\ session = NoSession

NextBind ==
    \/ \E r \in DOMAIN run, w \in DOMAIN workflows, i \in InputChoices :
           LoadWorkflow(r, w, i)
    \/ \E r \in DOMAIN run : CreateExecution(r)
    \/ \E r \in DOMAIN run : MarkRunning(r)
    \/ \E r \in DOMAIN run : SkipStep(r)
    \/ \E r \in DOMAIN run : BeginStep(r)
    \/ \E r \in DOMAIN run : StartAction(r)
    \/ \E r \in DOMAIN run : \E result \in PossibleResults(r) : ActionReturns(r, result)
    \/ \E r \in DOMAIN run : ActionRaises(r)
    \/ \E r \in DOMAIN run : BindResult(r)
    \/ \E r \in DOMAIN run : FailExecution(r)
    \/ \E r \in DOMAIN run : CompleteExecution(r)

SpecBind == InitBind /\ [][NextBind]_vars


\* ------------------------------------------------- named steps
\* Runs of workflows whose steps carry a "name": a string, or a JSON
\* number, which create_workflow accepts (the step schema is a free dict
\* and _validate_workflow_steps does not look at the name).
StepNames == {StrV(<<"n">>), IntV(5)}

NamedSteps ==
    {WithName(step, name) : step \in {StepPlain, StepIfEq}, name \in StepNames}

NamedStepLists == UNION {[1..n -> NamedSteps] : n \in 1..MaxSteps}

InitNamed ==
    /\ \E steps \in NamedStepLists, variables \in VariableChoices :
           workflows = <<Workflow(steps, variables, TRUE)>>
    /\ executions = <<>>
    /\ stepRows = <<>>
    /\ run = [r \in Runs |-> RunIdle]
    /\ cancel = [c \in Cancels |-> CancelIdle]
    /\ now = 0
    /\ templates = <<>>
    /\ call = [c \in Calls |-> CallIdle]
    /\ registry = action_registry
    /\ registrations = Imported
    /\ session = NoSession

NextNamed ==
    \/ \E r \in DOMAIN run, w \in DOMAIN workflows, i \in InputChoices :
           LoadWorkflow(r, w, i)
    \/ \E r \in DOMAIN run : CreateExecution(r)
    \/ \E r \in DOMAIN run : MarkRunning(r)
    \/ \E r \in DOMAIN run : SkipStep(r)
    \/ \E r \in DOMAIN run : SkipStepRefused(r)
    \/ \E r \in DOMAIN run : BeginStep(r)
    \/ \E r \in DOMAIN run : BeginStepRefused(r)
    \/ \E r \in DOMAIN run : StartAction(r)
    \/ \E r \in DOMAIN run : \E result \in PossibleResults(r) : ActionReturns(r, result)
    \/ \E r \in DOMAIN run : ActionRaises(r)
    \/ \E r \in DOMAIN run : BindResult(r)
    \/ \E r \in DOMAIN run : FailExecution(r)
    \/ \E r \in DOMAIN run : CompleteExecution(r)

SpecNamed == InitNamed /\ [][NextNamed]_vars


\* ------------------------------------------------------------ helpers
\* The Step Execution rows of one execution.
RowsOf(e) == {i \in DOMAIN stepRows : stepRows[i].execution_id = e}

RowsAt(e, step_index) ==
    {i \in RowsOf(e) : stepRows[i].step_index = step_index}

\* The task that runs execution e, if any.
RunnersOf(e) ==
    {r \in DOMAIN run : run[r].execution_id = e}

\* ------------------------------------------------------------- claims

\* executor.py 81-85, as a step of task r: the loop has reached a step and
\* decides on it ...
StepDecided(r) == run[r].pc = "loop" /\ StepsLeft(r) /\ run'[r] # run[r]

\* ... by recording it as skipped
StepSkipped(r) ==
    /\ Len(stepRows') = Len(stepRows) + 1
    /\ stepRows'[Len(stepRows')].status = "skipped"
    /\ run'[r].pc = "loop"

\* The value a dotted path names in the context data: context[a][b]...,
\* null when a key is missing or a part indexes what is no map.
RECURSIVE ValueAt(_, _)
ValueAt(value, parts) ==
    IF parts = <<>> THEN value
    ELSE IF value.t = "map" THEN ValueAt(MapGet(value, Head(parts)), Tail(parts))
    ELSE NoneV

PathValue(context, parts) ==
    ValueAt(DictGet(context, StrV(Head(parts))), Tail(parts))

\* What execute_workflow leaves behind when it runs the steps from
\* step_index on with nothing else going on (executor.py 78-131): the
\* possible outcomes, each with the final status, the context and the
\* (step_index, status) of the step rows in the order they were written.
RECURSIVE RunAlone(_, _, _, _)
RunAlone(steps, step_index, context, rows) ==
    IF step_index >= Len(steps)
    THEN {[status |-> "completed", context |-> context, rows |-> rows]}
    ELSE LET step == steps[step_index + 1]
             failed == [status |-> "failed", context |-> context, rows |-> rows]
         IN  IF ~_should_execute_step(step, context)
             THEN RunAlone(steps, step_index + 1, context,
                           Append(rows, <<step_index, "skipped">>))
             ELSE IF step.action = Missing \/ ~is_registered(registry, step.action)
             THEN {failed}
             ELSE IF ~validate_parameters(registry[step.action], step.parameters)
             THEN {[failed EXCEPT !.rows = Append(rows, <<step_index, "failed">>)]}
             ELSE {[failed EXCEPT !.rows = Append(rows, <<step_index, "failed">>)]}
                  \cup UNION {RunAlone(steps, step_index + 1,
                                  DictSet(context, OutputVariable(step, step_index), result),
                                  Append(rows, <<step_index, "completed">>)) :
                              result \in execute(registry[step.action],
                                                 step.parameters, context)}

\* The (step_index, status) of the step rows of execution e, in the order
\* of the table.
RECURSIVE RowsWritten(_, _)
RowsWritten(e, n) ==
    IF n = 0 THEN <<>>
    ELSE IF stepRows[n].execution_id = e
    THEN Append(RowsWritten(e, n - 1), <<stepRows[n].step_index, stepRows[n].status>>)
    ELSE RowsWritten(e, n - 1)

\* C1: terminal statuses are absorbing -- once the persisted status of an
\* execution is completed, failed or cancelled, no step of the run loop or
\* of cancel_execution changes it.
C1_TerminalAbsorbing ==
    [][\A e \in DOMAIN executions :
          executions[e].status \in Terminal
              => executions'[e].status = executions[e].status]_vars

\* C2: after cancel_execution has succeeded on a running execution (the row
\* is cancelled and has a start timestamp), the run loop creates no further
\* Step Execution row.
C2_NoStepAfterCancel ==
    [][\A e \in DOMAIN executions :
          (executions[e].status = "cancelled" /\ executions[e].started_at # NoneInt)
              => RowsOf(e)' = RowsOf(e)]_vars

\* C3: cancel_execution on a completed, failed or cancelled execution is
\* rejected and leaves the execution unchanged; on an id without a row it
\* is rejected as not found; a rejected call writes nothing later either.
C3_CancelRejected ==
    [][\A c \in Cancels :
          /\ (cancel[c].pc = "idle" /\ cancel'[c].pc # "idle") =>
                LET e == cancel'[c].execution_id
                IN  /\ e \notin DOMAIN executions =>
                          cancel'[c].pc = "not_found" /\ executions' = executions
                    /\ (e \in DOMAIN executions /\ executions[e].status \in Terminal) =>
                          /\ cancel'[c].pc = "rejected"
                          /\ executions' = executions
                          /\ stepRows' = stepRows
          /\ cancel[c].pc \in {"rejected", "not_found"} => cancel'[c] = cancel[c]]_vars

C3_Witness ==
    /\ \E c \in Cancels : cancel[c].pc = "not_found"
    /\ \E c \in Cancels :
          /\ cancel[c].pc = "rejected"
          /\ executions[cancel[c].execution_id].status = "completed"

\* C4: of all cancel_execution calls on one execution at most one succeeds.
C4_CancelSucceedsOnce ==
    \A e \in DOMAIN executions :
        Cardinality({c \in Cancels : cancel[c].pc = "cancelled"
                                     /\ cancel[c].execution_id = e}) <= 1

\* C5: a run of an enabled workflow with at least one step, in which no
\* step was skipped, no action failed and no cancel got past its status
\* check, returns with status completed, current_step equal to the number
\* of steps and output_data equal to the final context, which holds every
\* step's output variable.
C5_CompletedRun ==
    \A r \in DOMAIN run :
        LET e == run[r].execution_id
            steps == run[r].workflow.steps
        IN  ( /\ run[r].pc = "returned"
              /\ Len(steps) >= 1
              /\ \A i \in RowsOf(e) : stepRows[i].status # "skipped"
              /\ \A c \in Cancels : cancel[c].pc \notin {"selected", "cancelled"} )
            => /\ executions[e].status = "completed"
               /\ executions[e].current_step = Len(steps)
               /\ ~executions[e].output_data.null
               /\ executions[e].output_data.d = run[r].context
               /\ \A i \in 1..Len(steps) :
                      OutputVariable(steps[i], i - 1) \in DOMAIN executions[e].output_data.d

C5_Witness ==
    \E r \in DOMAIN run :
        /\ run[r].pc = "returned"
        /\ Len(run[r].workflow.steps) = 2
        /\ \A i \in RowsOf(run[r].execution_id) : stepRows[i].status = "completed"
        /\ \A c \in Cancels : cancel[c].pc \notin {"selected", "cancelled"}
        /\ executions[run[r].execution_id].current_step = 2

\* C6: a failed execution carries an error message and an error_step that
\* is the index of the first failing step: the step the run stopped at,
\* every earlier step has a completed or skipped row, the row at error_step
\* (if the step got one) is failed, and there is no later row.
C6_FailedCarriesError ==
    \A e \in DOMAIN executions :
        executions[e].status = "failed" =>
            LET x == executions[e]
            IN  /\ x.error_message # NoneStr
                /\ x.error_step # NoneInt
                /\ \A r \in RunnersOf(e) :
                      /\ run[r].pc = "raised"
                      /\ run[r].step_index = x.error_step
                      /\ RowsAt(e, x.error_step) = {} =>
                            \/ CurrentStep(r).action = Missing
                            \/ ~is_registered(action_registry, CurrentStep(r).action)
                /\ \A i \in RowsOf(e) :
                      /\ stepRows[i].step_index <= x.error_step
                      /\ stepRows[i].step_index < x.error_step =>
                            stepRows[i].status \in {"completed", "skipped"}
                      /\ stepRows[i].step_index = x.error_step =>
                            stepRows[i].status = "failed"

C6_Witness ==
    \E e \in DOMAIN executions :
        /\ executions[e].status = "failed"
        /\ executions[e].error_step = 1
        /\ \E i \in RowsAt(e, 1) : stepRows[i].error_message = ActionError

\* C7: once the action of step i raised in execute, the run never goes past
\* step i: the execution has no row for a later index, and the task stays
\* in the failure path with its loop index at i.
C7_NoStepAfterFailure ==
    \A i \in DOMAIN stepRows :
        (stepRows[i].status = "failed" /\ stepRows[i].error_message = ActionError) =>
            /\ \A j \in RowsOf(stepRows[i].execution_id) :
                  stepRows[j].step_index <= stepRows[i].step_index
            /\ \A r \in RunnersOf(stepRows[i].execution_id) :
                  /\ run[r].pc \in {"step_failed", "raised"}
                  /\ run[r].step_index = stepRows[i].step_index

C7_Witness ==
    \E i \in DOMAIN stepRows :
        /\ stepRows[i].status = "failed"
        /\ stepRows[i].error_message = ActionError
        /\ stepRows[i].step_index = 0
        /\ \E r \in RunnersOf(stepRows[i].execution_id) :
              run[r].pc = "raised" /\ Len(run[r].workflow.steps) = 2

\* C8: a step whose condition evaluates to false leaves the context and the
\* execution row unchanged, invokes no action, and adds exactly one row for
\* its index, with status skipped and no timestamps, duration or output;
\* a skipped row never has any of these.
C8_SkipFrame ==
    /\ [][\A r \in DOMAIN run :
            ( /\ run[r].pc = "loop"
              /\ StepsLeft(r)
              /\ ~_should_execute_step(CurrentStep(r), run[r].context)
              /\ run'[r] # run[r] )
            => /\ run'[r].context = run[r].context
               /\ run'[r].pc = "loop"
               /\ run'[r].step_index = run[r].step_index + 1
               /\ executions' = executions
               /\ Len(stepRows') = Len(stepRows) + 1
               /\ SubSeq(stepRows', 1, Len(stepRows)) = stepRows
               /\ LET x == stepRows'[Len(stepRows')]
                  IN  /\ x.status = "skipped"
                      /\ x.execution_id = run[r].execution_id
                      /\ x.step_index = run[r].step_index
               /\ Cardinality({i \in DOMAIN stepRows' :
                      /\ stepRows'[i].execution_id = run[r].execution_id
                      /\ stepRows'[i].step_index = run[r].step_index}) = 1]_vars
    /\ [](\A i \in DOMAIN stepRows :
            stepRows[i].status = "skipped" =>
                /\ stepRows[i].started_at = NoneInt
                /\ stepRows[i].completed_at = NoneInt
                /\ stepRows[i].duration_ms = NoneInt
                /\ stepRows[i].output_data = NoneV)

C8_Witness ==
    \E r \in DOMAIN run :
        /\ run[r].pc = "returned"
        /\ run[r].context # EmptyDict
        /\ \E i \in RowsOf(run[r].execution_id) : stepRows[i].status = "skipped"
        /\ \E i \in RowsOf(run[r].execution_id) : stepRows[i].status = "completed"

\* C9: an execution enters running at most once and started_at is stamped
\* exactly then: a new row has no started_at, the update that makes the
\* status running is the only one that sets started_at, it sets it from
\* null, and a set started_at never changes.
C9_RunningOnce ==
    [][\A e \in DOMAIN executions' :
          IF e \notin DOMAIN executions
          THEN executions'[e].started_at = NoneInt /\ executions'[e].status = "pending"
          ELSE LET a == executions[e]
                   b == executions'[e]
               IN  /\ (a.status # "running" /\ b.status = "running") =>
                          (a.started_at = NoneInt /\ b.started_at # NoneInt)
                   /\ a.started_at # NoneInt => b.started_at = a.started_at
                   /\ (a.started_at = NoneInt /\ b.started_at # NoneInt) =>
                          (a.status # "running" /\ b.status = "running")]_vars

C9_Witness ==
    \E e \in DOMAIN executions :
        /\ executions[e].status = "running"
        /\ executions[e].started_at # NoneInt
        /\ executions[e].completed_at # NoneInt

\* C10: the persisted current_step of an execution never decreases.
C10_CurrentStepMonotonic ==
    [][\A e \in DOMAIN executions :
          executions'[e].current_step >= executions[e].current_step]_vars

C10_Witness ==
    \E e \in DOMAIN executions :
        /\ executions[e].current_step = 2
        /\ \E c \in Cancels : cancel[c].pc = "cancelled" /\ cancel[c].execution_id = e

\* C11: an execution, and likewise a Step Execution row, has a duration_ms
\* only if it has both its start and its end timestamp; an execution that is
\* cancelled while still pending gets an end timestamp and no duration.
C11_DurationNeedsTimestamps ==
    /\ [](/\ \A e \in DOMAIN executions :
               executions[e].duration_ms # NoneInt =>
                   /\ executions[e].started_at # NoneInt
                   /\ executions[e].completed_at # NoneInt
          /\ \A i \in DOMAIN stepRows :
               stepRows[i].duration_ms # NoneInt =>
                   /\ stepRows[i].started_at # NoneInt
                   /\ stepRows[i].completed_at # NoneInt)
    /\ [][\A c \in Cancels :
            ( /\ cancel[c].pc = "selected"
              /\ cancel'[c].pc = "cancelled"
              /\ executions[cancel[c].execution_id].status = "pending" )
            => LET x == executions'[cancel[c].execution_id]
               IN  /\ x.status = "cancelled"
                   /\ x.started_at = NoneInt
                   /\ x.completed_at # NoneInt
                   /\ x.duration_ms = NoneInt]_vars

C11_Witness ==
    /\ \E e \in DOMAIN executions :
          /\ executions[e].status = "cancelled"
          /\ executions[e].started_at = NoneInt
          /\ executions[e].completed_at # NoneInt
          /\ executions[e].duration_ms = NoneInt
          /\ \A c \in Cancels : cancel[c].pc = "cancelled"
    /\ \A r \in DOMAIN run : run[r].pc = "created"

\* C12: there is at most one Step Execution row for any (execution id, step
\* index) pair, and exactly one for every step the loop has passed (it was
\* skipped or completed) and for the step the Step Runner is at (its row
\* was inserted as running).
C12_OneRowPerStep ==
    /\ \A i, j \in DOMAIN stepRows :
          ( /\ stepRows[i].execution_id = stepRows[j].execution_id
            /\ stepRows[i].step_index = stepRows[j].step_index ) => i = j
    /\ \A r \in DOMAIN run :
          run[r].execution_id # 0 =>
              /\ \A k \in 0..(run[r].step_index - 1) :
                    Cardinality(RowsAt(run[r].execution_id, k)) = 1
              /\ run[r].pc \in {"step_started", "executing", "step_done", "step_failed"}
                    => Cardinality(RowsAt(run[r].execution_id, run[r].step_index)) = 1

C12_Witness ==
    \E r \in DOMAIN run :
        /\ run[r].pc = "raised"
        /\ run[r].step_index = 1
        /\ \E i \in RowsAt(run[r].execution_id, 0) : stepRows[i].status = "skipped"
        /\ \E i \in RowsAt(run[r].execution_id, 1) : stepRows[i].status = "failed"
        /\ Cardinality(RowsOf(run[r].execution_id)) = 2

\* C13: every run-time step error is recorded on both records -- whenever
\* an execution is failed with error_step = i (also when step i's action
\* type is not in the registry), a Step Execution row for index i exists
\* with status failed and an error message, and the call raised that error.
C13_StepErrorOnBothRecords ==
    \A e \in DOMAIN executions :
        executions[e].status = "failed" =>
            /\ \E i \in RowsAt(e, executions[e].error_step) :
                  /\ stepRows[i].status = "failed"
                  /\ stepRows[i].error_message # NoneStr
            /\ \A r \in RunnersOf(e) :
                  /\ run[r].pc = "raised"
                  /\ run[r].error = executions[e].error_message

\* C14: steps are started in increasing index order and never overlap --
\* when the loop turns to step k (it evaluates the condition and skips,
\* rejects or starts the step), every row of the execution belongs to an
\* earlier index and is final (completed or skipped), each earlier index
\* has its row, and for every completed step the result is bound in the
\* context under the step's output variable, the persisted context
\* snapshot is the context and current_step is past that step.
C14_StepsInOrder ==
    [][\A r \in DOMAIN run :
          ( /\ run[r].pc = "loop"
            /\ run[r].step_index < Len(run[r].workflow.steps)
            /\ run'[r] # run[r] )
          => LET e == run[r].execution_id
                 k == run[r].step_index
             IN  /\ \A i \in RowsOf(e) :
                       /\ stepRows[i].step_index < k
                       /\ stepRows[i].status \in {"completed", "skipped"}
                 /\ \A j \in 0..(k - 1) : RowsAt(e, j) # {}
                 /\ \A i \in RowsOf(e) :
                       stepRows[i].status = "completed" =>
                           /\ OutputVariable(
                                  run[r].workflow.steps[stepRows[i].step_index + 1],
                                  stepRows[i].step_index) \in DOMAIN run[r].context
                           /\ ~executions[e].context.null
                           /\ executions[e].context.d = run[r].context
                           /\ executions[e].current_step > stepRows[i].step_index]_vars

\* C15: the initial context of a run is the workflow's default variables
\* overlaid with the caller's input -- before the first step every key of
\* the input maps to the input's value, every key only in the workflow
\* variables maps to the workflow's value, and there is no other key.
C15_SeededContext ==
    \A r \in DOMAIN run :
        (run[r].pc = "loop" /\ run[r].step_index = 0) =>
            LET given == IF run[r].input_data.null THEN EmptyDict
                         ELSE run[r].input_data.d
                defaults == IF run[r].workflow.variables.null THEN EmptyDict
                            ELSE run[r].workflow.variables.d
            IN  /\ DOMAIN run[r].context = (DOMAIN given) \cup (DOMAIN defaults)
                /\ \A k \in DOMAIN given : run[r].context[k] = given[k]
                /\ \A k \in (DOMAIN defaults) \ (DOMAIN given) :
                      run[r].context[k] = defaults[k]

C15_Witness ==
    \E r \in DOMAIN run :
        /\ run[r].pc = "loop"
        /\ run[r].step_index = 0
        /\ ~run[r].input_data.null
        /\ DOMAIN run[r].input_data.d = {StrV(flag)}
        /\ ~run[r].workflow.variables.null
        /\ DOMAIN run[r].workflow.variables.d = {StrV(flag), StrV(mode)}
        /\ run[r].workflow.variables.d[StrV(flag)] # run[r].input_data.d[StrV(flag)]
        /\ run[r].context[StrV(flag)] = run[r].input_data.d[StrV(flag)]
        /\ run[r].context[StrV(mode)] = run[r].workflow.variables.d[StrV(mode)]

\* C16: a successful step binds its result in the context under the step's
\* declared output-variable name, and under step_<index>_output when the
\* step declares none (the field is absent, or null).
C16_OutputVariableBinding ==
    [][\A r \in DOMAIN run :
          (run[r].pc = "step_done" /\ run'[r].pc = "loop") =>
              LET step == run[r].workflow.steps[run[r].step_index + 1]
                  name == IF step.has_output_variable /\ step.output_variable # NoneV
                          THEN step.output_variable
                          ELSE StrV(DefaultOutputVariable(run[r].step_index))
              IN  /\ name \in DOMAIN run'[r].context
                  /\ run'[r].context[name] = run[r].result]_vars

\* C17: execute_workflow on a workflow id without a row, or on a workflow
\* whose enabled flag is false (also after an update_workflow call set it
\* to false, until a later call sets it to true), raises, creates no
\* Execution and no Step Execution row and writes nothing later; a call
\* goes on only with a workflow that exists and is enabled.
C17_RejectedExecuteWritesNothing ==
    [][/\ \A r \in DOMAIN run :
            /\ (run[r].pc = "idle" /\ run'[r].pc # "idle") =>
                  IF \E w \in DOMAIN workflows :
                         /\ workflows[w].enabled
                         /\ run'[r].workflow_id = w
                         /\ run'[r].workflow = workflows[w]
                  THEN run'[r].pc = "loaded"
                  ELSE /\ run'[r].pc = "raised"
                       /\ run'[r].error \in {"Workflow not found", "Workflow is disabled"}
                       /\ run'[r].execution_id = 0
                       /\ executions' = executions
                       /\ stepRows' = stepRows
            /\ (run[r].pc = "raised" /\ run[r].execution_id = 0) => run'[r] = run[r]
       /\ Len(executions') > Len(executions) =>
              \E r \in DOMAIN run : run[r].pc = "loaded" /\ run'[r].pc = "created"]_vars

C17_Witness ==
    /\ \E r \in DOMAIN run :
          run[r].pc = "raised" /\ run[r].error = "Workflow is disabled"
    /\ \E c \in Calls :
          /\ call[c].op = "update_workflow"
          /\ call[c].pc = "done"
          /\ call[c].args.has_enabled
          /\ ~call[c].args.enabled
          /\ ~workflows[call[c].workflow_id].enabled
    /\ executions = <<>>

\* C18: every persisted workflow has at least one step, and each of its
\* steps names a registered action type whose validate accepts the step's
\* parameters; a create_workflow, update_workflow or
\* create_workflow_from_template call that is rejected persists nothing.
C18_StoredStepsValid ==
    /\ [](\A w \in DOMAIN workflows :
             /\ Len(workflows[w].steps) >= 1
             /\ \A i \in DOMAIN workflows[w].steps :
                   LET step == workflows[w].steps[i]
                   IN  /\ step.action \in DOMAIN action_registry
                       /\ RequiredParameters(action_registry[step.action])
                              \subseteq DOMAIN step.parameters)
    /\ [][\A c \in Calls :
            (call[c].pc # "rejected" /\ call'[c].pc = "rejected") =>
                /\ workflows' = workflows
                /\ templates' = templates
                /\ executions' = executions]_vars

C18_Witness ==
    /\ \E c \in Calls :
          /\ call[c].op = "update_workflow"
          /\ call[c].pc = "rejected"
          /\ call[c].args.has_steps
    /\ \E c \in Calls :
          /\ call[c].op = "create_workflow"
          /\ call[c].pc = "done"
          /\ Len(workflows[call[c].workflow_id].steps) >= 1

\* C19: a workflow's version starts at 1, never decreases, and every
\* update_workflow call that edits the steps or the variables increments it
\* by one; a call that changes only name or enabled leaves it unchanged.
C19_VersionCountsEdits ==
    [][/\ \A w \in DOMAIN workflows' :
            IF w \in DOMAIN workflows
            THEN workflows'[w].version >= workflows[w].version
            ELSE workflows'[w].version = 1
       /\ \A c \in Calls :
            ( /\ call[c].op = "update_workflow"
              /\ call[c].pc = "selected"
              /\ call'[c].pc = "done" )
            => LET w == call[c].workflow_id
                   args == call[c].args
               IN  workflows'[w].version =
                       IF args.has_steps \/ ~args.variables.null
                       THEN workflows[w].version + 1
                       ELSE workflows[w].version]_vars

\* C20: whenever no create_workflow_from_template call is between its
\* insert of the workflow and its count, a template's usage_count equals
\* the number of workflows instantiated from it.
C20_UsageCountsInstantiations ==
    (\A c \in Calls : call[c].pc # "created") =>
        \A t \in DOMAIN templates :
            templates[t].usage_count =
                Cardinality({w \in DOMAIN workflows : workflows[w].template_id = t})

\* C21: registering a class under an action type that is already registered
\* replaces the earlier class -- after any sequence of register calls, get
\* and list_actions answer for every action type with the class that was
\* registered last under that type (None and no entry if none was), so the
\* classes of the other types are unaffected.
C21_LastRegistrationWins ==
    \A t \in {ActionType(class) : class \in RegistrableClasses} :
        LET calls == {i \in DOMAIN registrations : ActionType(registrations[i]) = t}
            last == CHOOSE i \in calls : \A j \in calls : j <= i
        IN  IF calls = {}
            THEN /\ get(registry, t) = NoneStr
                 /\ ~is_registered(registry, t)
                 /\ t \notin DOMAIN list_actions(registry)
            ELSE /\ get(registry, t) = registrations[last]
                 /\ is_registered(registry, t)
                 /\ t \in DOMAIN list_actions(registry)
                 /\ list_actions(registry)[t] = get_description(registrations[last])

C21_Witness ==
    /\ Len(registrations) = 3
    /\ registrations[1] = EchoAction
    /\ registrations[2] = LLMQueryAction
    /\ registrations[3] = EchoActionV2
    /\ get(registry, "echo") = EchoActionV2
    /\ get(registry, "llm_query") = LLMQueryAction
    /\ list_actions(registry)["echo"] = <<"echo", " action">>

\* C22: a step whose condition is "<var> == <expected>" (the expected text
\* possibly in quotes, with blanks around either part) runs iff str() of
\* the context value of <var> equals <expected>, and with " != " iff it
\* does not; "flag == true" on {"flag": "false"} is skipped.
C22_ComparisonForms ==
    [][\A r \in DOMAIN run : StepDecided(r) =>
         \A var \in ConditionVars, q \in QuoteMarks,
            expected \in ExpectedTexts, pad \in Paddings :
            LET value == PyStr(DictGet(run[r].context, StrV(var)))
                condition == CurrentStep(r).condition
            IN  /\ condition = StrV(Comparison(var, EqOp, q, expected, pad))
                      => (StepSkipped(r) <=> value # expected)
                /\ condition = StrV(Comparison(var, NeOp, q, expected, pad))
                      => (StepSkipped(r) <=> value = expected)]_vars

C22_Witness ==
    \E r \in DOMAIN run :
        /\ run[r].pc = "loop"
        /\ run[r].step_index = 1
        /\ run[r].workflow.steps[1].condition = StrV(flag \o EqOp \o true)
        /\ run[r].context = [k \in {StrV(flag)} |-> StrV(false)]
        /\ \E i \in DOMAIN stepRows :
               /\ stepRows[i].execution_id = run[r].execution_id
               /\ stepRows[i].status = "skipped"

\* C23: a condition without " == " and " != " is an existence test exactly
\* when it ends with " exists" -- then the step runs iff the name before
\* the suffix is a key of the context with a value that is not null; a
\* condition that has " exists" elsewhere is a variable name like any
\* other, and the step runs iff that variable is truthy.
C23_ExistsSuffix ==
    [][\A r \in DOMAIN run :
         LET condition == CurrentStep(r).condition
             c == condition.s
             name == StrV(Strip(SubSeq(c, 1, Len(c) - Len(ExistsOp))))
         IN  /\ StepDecided(r)
             /\ condition.t = "str"
             /\ ~Contains(c, EqOp)
             /\ ~Contains(c, NeOp)
             /\ Contains(c, ExistsOp)
             => IF SubSeq(c, Len(c) - Len(ExistsOp) + 1, Len(c)) = ExistsOp
                THEN StepSkipped(r) <=> ~(/\ name \in DOMAIN run[r].context
                                          /\ run[r].context[name] # NoneV)
                ELSE StepSkipped(r) <=>
                         ~Truthy(DictGet(run[r].context, StrV(Strip(c))))]_vars

\* C24: a step without a condition always runs, and a step whose condition
\* is a bare variable name (with blanks around it) is skipped iff the
\* variable is absent from the context or its value is null, false, zero
\* or empty.
C24_NameConditions ==
    [][\A r \in DOMAIN run : StepDecided(r) =>
         LET condition == CurrentStep(r).condition
         IN  /\ condition \in {NoneV, StrV(<<>>)} => ~StepSkipped(r)
             /\ \A var \in ConditionVars, pad \in Paddings :
                    condition = StrV(pad \o var \o pad)
                        => (StepSkipped(r) <=>
                              DictGet(run[r].context, StrV(var))
                                  \in {NoneV, BoolV(FALSE), IntV(0), StrV(<<>>)})]_vars

C24_Witness ==
    \E r \in DOMAIN run :
        /\ run[r].pc = "loop"
        /\ run[r].step_index = 1
        /\ run[r].workflow.steps[1].condition = StrV(<<" ">> \o flag \o <<" ">>)
        /\ run[r].context = [k \in {StrV(flag)} |-> IntV(0)]
        /\ \E i \in DOMAIN stepRows :
               /\ stepRows[i].execution_id = run[r].execution_id
               /\ stepRows[i].status = "skipped"

\* C25: condition evaluation is fail-open -- at every step the loop reaches
\* _should_execute_step returns a decision (True or False), a step
\* whose condition makes the evaluation raise (a condition that is no
\* string) is never skipped, and an execution becomes failed only through
\* a step that was decided to run (its action missing or unknown, or the
\* Step Runner raising).
C25_FailOpen ==
    /\ [](\A r \in DOMAIN run :
             run[r].pc = "loop" /\ StepsLeft(r)
                 => _should_execute_step(CurrentStep(r), run[r].context) \in BOOLEAN)
    /\ [][\A r \in DOMAIN run :
            LET condition == CurrentStep(r).condition
                e == run[r].execution_id
            IN  /\ StepDecided(r) /\ condition.t \notin {"none", "str"}
                                  /\ Truthy(condition)
                      => ~StepSkipped(r)
                /\ e \in DOMAIN executions
                      /\ executions[e].status # "failed"
                      /\ executions'[e].status = "failed"
                      => \/ run[r].pc = "step_failed"
                         \/ /\ StepDecided(r)
                            /\ ~StepSkipped(r)
                            /\ \/ CurrentStep(r).action = Missing
                               \/ ~is_registered(registry, CurrentStep(r).action)]_vars

C25_Witness ==
    \E r \in DOMAIN run :
        /\ run[r].pc = "step_started"
        /\ run[r].workflow.steps[1].condition = IntV(1)
        /\ executions[run[r].execution_id].status = "running"
        /\ stepRows[run[r].step_row].status = "running"

\* C26: a placeholder whose dotted path is missing from the context, names
\* a null or runs into a value that is no map is left in the string as it
\* was written -- a string with one such placeholder comes back from
\* resolve_variables unchanged.
C26_UnresolvedKept ==
    \A r \in DOMAIN run :
        run[r].pc = "executing" =>
            \A affix \in Affixes, pad \in Paddings, parts \in Placeholders :
                LET template == StrV(Template(affix, pad, parts))
                IN  /\ run[r].parameters["query"] = template
                    /\ PathValue(run[r].context, parts) = NoneV
                    => run[r].request["query"] = template

\* C27: resolve_variables returns a value without {{...}} tokens unchanged
\* in every context: strings, scalars, and maps and lists of them, keys
\* included.
C27_TokenFreeUnchanged ==
    \A r \in DOMAIN run :
        run[r].pc = "executing" /\ run[r].parameters["query"] \in TokenFreeValues
            => run[r].request["query"] = run[r].parameters["query"]

C27_Witness ==
    \E r \in DOMAIN run :
        /\ run[r].pc = "executing"
        /\ run[r].context # EmptyDict
        /\ run[r].parameters["query"] \in TokenFreeValues
        /\ run[r].parameters["query"].t = "map"
        /\ run[r].parameters["query"].items[1].v = StrV(<<"{", "{", "}", "}">>)
        /\ run[r].request["query"] = run[r].parameters["query"]

\* C28: when action.execute is awaited, the parameters it was handed are
\* the step's parameters with every placeholder resolved against the
\* context, and the Step Execution row holds the step's parameters as
\* stored.
C28_ResolvedBeforeExecute ==
    \A r \in DOMAIN run :
        run[r].pc = "executing" =>
            LET raw == CurrentStep(r).parameters
            IN  /\ run[r].parameters =
                       [k \in DOMAIN raw |-> resolve_variables(raw[k], run[r].context)]
                /\ stepRows[run[r].step_row].parameters = raw

\* C29: the workflow [{action: echo, parameters: {value: "{{input.msg}}"},
\* output_variable: greeting}] run with input {"msg": "hi"} ends completed
\* with the context {"msg": "hi", "greeting": "hi"}, which is also its
\* output_data.
C29_EchoScenario ==
    \A r \in DOMAIN run :
        /\ run[r].pc = "returned"
        /\ run[r].workflow.steps =
               <<Echo(StrV(Template(<<<<>>, <<>>>>, <<>>, <<input, msg>>)))>>
        /\ run[r].input_data = Json([k \in {StrV(msg)} |-> StrV(hi)])
        => LET final == [k \in {StrV(msg), StrV(greeting)} |-> StrV(hi)]
           IN  /\ executions[run[r].execution_id].status = "completed"
               /\ run[r].context = final
               /\ executions[run[r].execution_id].output_data = Json(final)

\* C30: two interleaved executions do not interfere -- every step of the
\* system is the step of one task, which leaves the other task's locals
\* alone and writes only the Execution row and the Step Execution rows of
\* its own execution; and when a task has ended, the status, context,
\* output_data and step rows of its execution are an outcome the workflow
\* has for that input when run alone.
C30_NoInterference ==
    /\ [](\A r \in DOMAIN run :
             run[r].pc \in {"returned", "raised"} /\ run[r].execution_id # 0
                 => LET e == run[r].execution_id
                        end == [status |-> executions[e].status,
                                context |-> run[r].context,
                                rows |-> RowsWritten(e, Len(stepRows))]
                    IN  /\ end \in RunAlone(run[r].workflow.steps, 0,
                                   SeedContext(run[r].workflow, run[r].input_data), <<>>)
                        /\ executions[e].output_data =
                               IF end.status = "completed"
                               THEN Json(run[r].context) ELSE NullJson)
    /\ [][\E r \in DOMAIN run :
            /\ \A q \in DOMAIN run \ {r} : run'[q] = run[q]
            /\ \A e \in DOMAIN executions' :
                   (e \notin DOMAIN executions \/ executions'[e] # executions[e])
                       => e = run'[r].execution_id
            /\ \A i \in DOMAIN stepRows' :
                   (i \notin DOMAIN stepRows \/ stepRows'[i] # stepRows[i])
                       => stepRows'[i].execution_id = run[r].execution_id
            /\ \A e \in DOMAIN executions : e \in DOMAIN executions'
            /\ \A i \in DOMAIN stepRows :
                   /\ i \in DOMAIN stepRows'
                   /\ stepRows'[i].execution_id = stepRows[i].execution_id]_vars

C30_Witness ==
    /\ run[1].pc = "returned"
    /\ run[2].pc = "raised"
    /\ run[1].execution_id = 2
    /\ run[2].execution_id = 1
    /\ run[1].workflow_id = run[2].workflow_id
    /\ executions[2].status = "completed"
    /\ executions[1].status = "failed"
    /\ \E i, j, k \in DOMAIN stepRows :
           /\ i < j /\ j < k
           /\ stepRows[i].execution_id = 2
           /\ stepRows[j].execution_id = 1
           /\ stepRows[k].execution_id = 2

\* C31: an execute_workflow call that has created its execution row ends
\* with the persisted status terminal -- completed when the call has
\* returned, failed when it has raised; it does not leave the execution
\* pending or running.
C31_EndsTerminal ==
    \A r \in DOMAIN run :
        run[r].execution_id # 0 =>
            /\ run[r].pc = "returned" =>
                  executions[run[r].execution_id].status = "completed"
            /\ run[r].pc = "raised" =>
                  executions[run[r].execution_id].status = "failed"

\* C32: when validate_parameters rejects a step's parameters at run time,
\* the step's row, which was persisted as running with a start timestamp,
\* becomes failed with the error message and an end timestamp; execute is
\* not invoked for that step (the task goes straight to the failure
\* handler); and the handler makes the execution failed with that error and
\* error_step equal to the step's index.
C32_ValidateRejection ==
    [][\A r \in DOMAIN run :
          /\ ( /\ run[r].pc = "step_started"
                /\ ~validate_parameters(registry[CurrentStep(r).action],
                                        CurrentStep(r).parameters)
                /\ run'[r] # run[r] )
              => LET a == stepRows[run[r].step_row]
                     b == stepRows'[run[r].step_row]
                 IN  /\ a.status = "running" /\ a.started_at # NoneInt
                     /\ a.execution_id = run[r].execution_id
                     /\ a.step_index = run[r].step_index
                     /\ b.status = "failed"
                     /\ b.error_message = run'[r].error
                     /\ b.error_message # NoneStr
                     /\ b.completed_at # NoneInt
                     /\ b.output_data = NoneV
                     /\ run'[r].pc = "step_failed"
                     /\ run'[r].request = run[r].request
                     /\ run'[r].step_index = run[r].step_index
          /\ (run[r].pc = "step_failed" /\ run'[r] # run[r])
              => LET x == executions'[run[r].execution_id]
                 IN  /\ run'[r].pc = "raised"
                     /\ x.status = "failed"
                     /\ x.error_message = run[r].error
                     /\ x.error_step = run[r].step_index
                     /\ stepRows' = stepRows]_vars

C32_Witness ==
    \E r \in DOMAIN run :
        /\ run[r].pc = "raised"
        /\ run[r].step_index = 1
        /\ executions[run[r].execution_id].status = "failed"
        /\ executions[run[r].execution_id].error_step = 1
        /\ \E i \in RowsAt(run[r].execution_id, 1) :
              /\ stepRows[i].status = "failed"
              /\ stepRows[i].error_message = "missing required parameter"
              /\ stepRows[i].action_type = HTTPRequestAction

\* C33: there is no automatic retry.  execute is invoked for a step index
\* only when the index has exactly one row and that row is a fresh running
\* one (no output, no error); the invocation ends with the row completed or
\* failed; a row that has left running never is running again and no row
\* disappears; the loop index never goes back; once a step has a failed row
\* the task is in the failure path at that index; and the retry counter of
\* every row is 0.
C33_NoRetry ==
    /\ [](/\ \A i \in DOMAIN stepRows : stepRows[i].retry_count = 0
          /\ \A i \in DOMAIN stepRows :
                stepRows[i].status = "failed" =>
                    \A r \in RunnersOf(stepRows[i].execution_id) :
                        /\ run[r].pc \in {"step_failed", "raised"}
                        /\ run[r].step_index = stepRows[i].step_index)
    /\ [][/\ \A r \in DOMAIN run :
              /\ run'[r].step_index >= run[r].step_index
              /\ (run[r].pc # "executing" /\ run'[r].pc = "executing") =>
                    /\ run[r].pc = "step_started"
                    /\ RowsAt(run[r].execution_id, run[r].step_index) = {run[r].step_row}
                    /\ stepRows[run[r].step_row].status = "running"
                    /\ stepRows[run[r].step_row].output_data = NoneV
                    /\ stepRows[run[r].step_row].error_message = NoneStr
              /\ (run[r].pc = "executing" /\ run'[r] # run[r]) =>
                    /\ run'[r].pc \in {"step_done", "step_failed"}
                    /\ stepRows'[run[r].step_row].status \in {"completed", "failed"}
              /\ (run[r].pc \in {"step_done", "step_failed"} /\ run'[r] # run[r]) =>
                    \/ run'[r].pc = "raised"
                    \/ run'[r].pc = "loop" /\ run'[r].step_index = run[r].step_index + 1
              /\ run[r].pc \in {"raised", "returned"} => run'[r] = run[r]
        /\ Len(stepRows') >= Len(stepRows)
        /\ \A i \in DOMAIN stepRows :
              /\ stepRows'[i].execution_id = stepRows[i].execution_id
              /\ stepRows'[i].step_index = stepRows[i].step_index
              /\ stepRows[i].status # "running" => stepRows'[i].status # "running"]_vars

C33_Witness ==
    \E r \in DOMAIN run :
        /\ run[r].pc = "raised"
        /\ run[r].step_index = 1
        /\ Len(run[r].workflow.steps) = 2
        /\ \E i \in RowsAt(run[r].execution_id, 0) :
              stepRows[i].status = "completed" /\ stepRows[i].retry_count = 0
        /\ \E i \in RowsAt(run[r].execution_id, 1) :
              /\ stepRows[i].status = "failed"
              /\ stepRows[i].error_message = ActionError
              /\ stepRows[i].retry_count = 0

\* C34: the outcome fields agree with the status in every reachable state
\* -- output_data is non-null only on a completed execution, error_message
\* and error_step are non-null only on a failed one.
C34_OutcomeAgreesWithStatus ==
    \A e \in DOMAIN executions :
        /\ ~executions[e].output_data.null => executions[e].status = "completed"
        /\ executions[e].error_message # NoneStr => executions[e].status = "failed"
        /\ executions[e].error_step # NoneInt => executions[e].status = "failed"

\* C35: current_step is the index of the next step to run -- whenever the
\* loop is about to evaluate step i the persisted current_step is i, and on
\* a completed execution it is the number of steps, skipped steps included.
C35_CursorIsNextStep ==
    \A r \in DOMAIN run :
        LET e == run[r].execution_id
        IN  /\ (run[r].pc = "loop" /\ StepsLeft(r)) =>
                  executions[e].current_step = run[r].step_index
            /\ (run[r].pc = "returned" /\ executions[e].status = "completed") =>
                  executions[e].current_step = Len(run[r].workflow.steps)

\* C36: a rejected update_workflow is all-or-nothing -- the call itself
\* changes no persisted attribute of any workflow, and no later commit on
\* the same session persists what the rejected call had assigned: a stored
\* workflow has the name a rejected call asked for only if the workflow
\* was created with it or a successful update asked for it too.
C36_RejectedUpdateAtomic ==
    /\ [][\A c \in Calls :
            (call[c].pc = "idle" /\ call'[c].pc = "rejected") =>
                workflows' = workflows]_vars
    /\ [](\A c \in Calls, w \in DOMAIN workflows :
            ( /\ call[c].op = "update_workflow"
              /\ call[c].pc = "rejected"
              /\ call[c].workflow_id = w
              /\ workflows[w].name = call[c].args.name )
            => \/ w \notin DOMAIN InitialWorkflows
                     /\ call[c].args.name = Created
               \/ w \in DOMAIN InitialWorkflows
                     /\ InitialWorkflows[w].name = call[c].args.name
               \/ \E d \in Calls :
                     /\ call[d].op = "update_workflow"
                     /\ call[d].pc = "done"
                     /\ call[d].workflow_id = w
                     /\ call[d].args.name = call[c].args.name)

\* C37: the persisted context of an execution equals the run's in-memory
\* context as of the last step boundary, and on a completed execution the
\* context field equals output_data, also when every step was skipped.
C37_ContextSnapshot ==
    \A r \in DOMAIN run :
        LET e == run[r].execution_id
        IN  /\ run[r].pc = "loop" =>
                  executions[e].context = Json(run[r].context)
            /\ (run[r].pc = "returned" /\ executions[e].status = "completed") =>
                  executions[e].context = executions[e].output_data

\* C38: on a completed execution of a workflow with n steps every index
\* 0..n-1 has exactly one row, completed or skipped; a completed row has
\* an end timestamp and a result of its action as output; and the final
\* context holds that output under the step's output-variable name unless
\* a later completed step has the same output-variable name.
C38_CompletedRunRows ==
    \A e \in DOMAIN executions :
        executions[e].status = "completed" =>
            \A r \in RunnersOf(e) :
                LET steps == run[r].workflow.steps
                    final == executions[e].output_data.d
                IN  /\ ~executions[e].output_data.null
                    /\ \A k \in RowsOf(e) : stepRows[k].step_index < Len(steps)
                    /\ \A i \in 0..(Len(steps) - 1) :
                          /\ Cardinality(RowsAt(e, i)) = 1
                          /\ \A k \in RowsAt(e, i) :
                                /\ stepRows[k].status \in {"completed", "skipped"}
                                /\ stepRows[k].status = "completed" =>
                                      LET name == OutputVariable(steps[i + 1], i)
                                      IN  /\ stepRows[k].completed_at # NoneInt
                                          /\ stepRows[k].output_data \in
                                                Results(registry[steps[i + 1].action])
                                          /\ name \in DOMAIN final
                                          /\ \/ final[name] = stepRows[k].output_data
                                             \/ \E j \in (i + 1)..(Len(steps) - 1) :
                                                   /\ OutputVariable(steps[j + 1], j) = name
                                                   /\ \E m \in RowsAt(e, j) :
                                                         stepRows[m].status = "completed"

C38_Witness ==
    \E e \in DOMAIN executions :
        /\ executions[e].status = "completed"
        /\ \E k \in RowsAt(e, 0), m \in RowsAt(e, 1) :
              /\ stepRows[k].status = "completed"
              /\ stepRows[m].status = "completed"
              /\ stepRows[k].output_data # stepRows[m].output_data
              /\ executions[e].output_data.d[StrV(flag)] = stepRows[m].output_data
              /\ DOMAIN executions[e].output_data.d = {StrV(flag)}

\* C39: an execution has at most one row in status running, and that row
\* has the highest step index of the execution; rows are only added, as
\* running or as skipped; a row changes only by moving from running to
\* completed or to failed; a skipped, completed or failed row never
\* changes again.
C39_RowLifecycle ==
    /\ [](\A e \in DOMAIN executions :
            /\ Cardinality({i \in RowsOf(e) : stepRows[i].status = "running"}) <= 1
            /\ \A i \in RowsOf(e) :
                  stepRows[i].status = "running" =>
                      \A j \in RowsOf(e) \ {i} :
                          stepRows[j].step_index < stepRows[i].step_index)
    /\ [][/\ Len(stepRows') >= Len(stepRows)
          /\ \A i \in DOMAIN stepRows' \ DOMAIN stepRows :
                stepRows'[i].status \in {"running", "skipped"}
          /\ \A i \in DOMAIN stepRows :
                \/ stepRows'[i] = stepRows[i]
                \/ /\ stepRows[i].status = "running"
                   /\ stepRows'[i].status \in {"completed", "failed"}]_vars

C39_Witness ==
    \E e \in DOMAIN executions :
        /\ \E i \in RowsAt(e, 0) : stepRows[i].status = "completed"
        /\ \E i \in RowsAt(e, 1) : stepRows[i].status = "running"
        /\ \E r \in RunnersOf(e) : run[r].pc = "executing"
====
